---- MODULE Spec2Model ----
(***************************************************************************)
(* Conversation memory and request governance of wodrag:                   *)
(*   wodrag/conversation/models.py    Conversation, ConversationMessage    *)
(*   wodrag/conversation/storage.py   InMemoryConversationStore            *)
(*   wodrag/conversation/security.py  MessageSanitizer, RateLimiter        *)
(*   wodrag/conversation/service.py   ConversationService                  *)
(*                                                                         *)
(* Time is a discrete clock `now` (datetime.now(UTC) and time.time() read  *)
(* the same wall clock); the TTL and the rate-limit window are counted in  *)
(* ticks of it.  Every call reads the clock once: the calls are in-memory  *)
(* and take far less than one tick.                                        *)
(***************************************************************************)
EXTENDS Integers, Sequences, FiniteSets, TLC

VARIABLES
    now,                            \* the wall clock
    conversations,                  \* InMemoryConversationStore._conversations (OrderedDict, oldest first)
    max_conversations,              \* InMemoryConversationStore.max_conversations
    max_messages_per_conversation,  \* InMemoryConversationStore.max_messages_per_conversation
    conversation_ttl,               \* InMemoryConversationStore.conversation_ttl
    requests,                       \* RateLimiter._requests (dict, insertion order)
    max_requests,                   \* RateLimiter.max_requests
    window_seconds,                 \* RateLimiter.window_seconds
    max_identifiers,                \* RateLimiter.max_identifiers
    generated,                      \* number of ids SecureIdGenerator has handed out
    granted,                        \* history: per identifier, the times is_allowed said yes since it was last evicted
    sent,                           \* history: the messages callers sent (the add_*_message calls since the conversation was created)
    lm_calls,                       \* lm_budget._lm_calls, per request context
    lm_budget,                      \* lm_budget._lm_budget, per request context
    llm_invoked,                    \* per request, the calls that reached the underlying LM since the last reset
    lock,                           \* InMemoryConversationStore._lock: its holder, or Unlocked
    threads,                        \* per thread: the call it is in, its position and its locals
    allocated,                      \* number of Conversation objects created by threads
    removed,                        \* history: the Conversation objects deleted, evicted or expired from the store
    global_rate_limiter,            \* the RateLimiter of get_global_rate_limiter: its _requests and settings
    per_client_rate_limiter,        \* the RateLimiter of get_rate_limiter: its _requests and settings
    service_rate_limiter,           \* the class of ConversationService.rate_limiter
    ret                             \* the last call: its name, arguments and outcome

storeConfig == <<max_conversations, max_messages_per_conversation, conversation_ttl>>
limiterConfig == <<max_requests, window_seconds, max_identifiers>>
budgetVars == <<lm_calls, lm_budget, llm_invoked>>
threadVars == <<lock, threads, allocated, removed>>
apiVars == <<global_rate_limiter, per_client_rate_limiter, service_rate_limiter>>
vars == <<now, conversations, storeConfig, requests, limiterConfig, generated, granted,
          sent, budgetVars, threadVars, apiVars, ret>>

(***************************************************************************)
(* Bounds of the model.                                                    *)
(***************************************************************************)
MaxTime == 2        \* the clock runs 0..MaxTime
MaxCap == 2         \* max_conversations ranges over 1..MaxCap
MaxMsgCap == 2      \* max_messages_per_conversation ranges over 1..MaxMsgCap
MaxTTL == 1         \* conversation_ttl ranges over 1..MaxTTL
MaxInMsgs == 3      \* a conversation handed to save_conversation holds 0..MaxInMsgs messages
MaxLimit == 2       \* list_conversations(limit) is called with limit in 0..MaxLimit
MaxReq == 2         \* max_requests ranges over 0..MaxReq
MaxWindow == 2      \* window_seconds ranges over 1..MaxWindow
MaxIdents == 2      \* max_identifiers ranges over 1..MaxIdents
MaxGenerated == 1   \* SecureIdGenerator hands out at most MaxGenerated ids
MaxBudget == 2      \* the LM-call budget of a request ranges over 0..MaxBudget
MaxIdChars == 3         \* ids of up to MaxIdChars characters are enumerated
MaxThreadRequests == 4  \* max_requests of the limiter the threads share

(***************************************************************************)
(* Text.  A Python str is a sequence of characters; a run of n letters "x" *)
(* is kept as one element [c |-> "x", n |-> n] so that texts longer than   *)
(* MAX_MESSAGE_LENGTH can be written down.  Every other character is an    *)
(* element with n = 1.                                                     *)
(***************************************************************************)
Ch(c) == [c |-> c, n |-> 1]

Str(s) == [i \in 1..Len(s) |-> Ch(s[i])]

Fill(k) == IF k <= 0 THEN <<>> ELSE <<[c |-> "x", n |-> k]>>

RECURSIVE TextLen(_)
TextLen(t) == IF Len(t) = 0 THEN 0 ELSE Head(t).n + TextLen(Tail(t))

\* text[:k]
RECURSIVE TextPrefix(_, _)
TextPrefix(t, k) ==
    IF k <= 0 \/ Len(t) = 0 THEN <<>>
    ELSE IF Head(t).n <= k THEN <<Head(t)>> \o TextPrefix(Tail(t), k - Head(t).n)
    ELSE <<[c |-> Head(t).c, n |-> k]>>

(***************************************************************************)
(* Python values and slices.                                               *)
(***************************************************************************)
None == [none |-> TRUE]

\* s[-k:] for k >= 0: the last k elements, and the whole list when k = 0
\* (-0 is 0) or k >= len(s).
PySuffix(s, k) ==
    IF k = 0 \/ k >= Len(s) THEN s ELSE SubSeq(s, Len(s) - k + 1, Len(s))

\* s[:k]: the first k elements; a negative k drops the last -k.
PyPrefix(s, k) ==
    IF k >= Len(s) THEN s
    ELSE IF k >= 0 THEN SubSeq(s, 1, k)
    ELSE IF Len(s) + k <= 0 THEN <<>>
    ELSE SubSeq(s, 1, Len(s) + k)

Digits == <<"1", "2", "3", "4", "5", "6", "7", "8", "9">>

Reversed(s) == [i \in 1..Len(s) |-> s[Len(s) + 1 - i]]

(***************************************************************************)
(* MessageSanitizer and SecureIdGenerator (security.py).                   *)
(***************************************************************************)
MAX_MESSAGE_LENGTH == 10000

Lowercase == {"a", "b", "c", "d", "e", "f", "g", "h", "i", "j", "k", "l", "m",
              "n", "o", "p", "q", "r", "s", "t", "u", "v", "w", "x", "y", "z"}
Uppercase == {"A", "B", "C", "D", "E", "F", "G", "H", "I", "J", "K", "L", "M",
              "N", "O", "P", "Q", "R", "S", "T", "U", "V", "W", "X", "Y", "Z"}
DigitChars == {"0", "1", "2", "3", "4", "5", "6", "7", "8", "9"}

\* re.IGNORECASE: the letter a pattern letter is compared with
Lower(c) ==
    CASE c = "A" -> "a" [] c = "B" -> "b" [] c = "C" -> "c" [] c = "D" -> "d"
      [] c = "E" -> "e" [] c = "F" -> "f" [] c = "G" -> "g" [] c = "H" -> "h"
      [] c = "I" -> "i" [] c = "J" -> "j" [] c = "K" -> "k" [] c = "L" -> "l"
      [] c = "M" -> "m" [] c = "N" -> "n" [] c = "O" -> "o" [] c = "P" -> "p"
      [] c = "Q" -> "q" [] c = "R" -> "r" [] c = "S" -> "s" [] c = "T" -> "t"
      [] c = "U" -> "u" [] c = "V" -> "v" [] c = "W" -> "w" [] c = "X" -> "x"
      [] c = "Y" -> "y" [] c = "Z" -> "z" [] OTHER -> c

\* \s
Whitespace == {" ", "\t", "\n", "\r", "\f"}

\* the pattern literal (lower case) stands at position i of the text
MatchAt(text, i, literal) ==
    /\ i >= 1
    /\ i + Len(literal) - 1 <= Len(text)
    /\ \A k \in 1..Len(literal) :
          text[i + k - 1].n = 1 /\ Lower(text[i + k - 1].c) = literal[k]

\* the first position >= i holding the character c, or 0
FirstChar(text, i, c) ==
    LET hits == {j \in i..Len(text) : text[j].n = 1 /\ text[j].c = c}
    IN  IF hits = {} THEN 0 ELSE CHOOSE j \in hits : \A h \in hits : j <= h

\* the first position >= i where the literal stands, or 0
FirstLiteral(text, i, literal) ==
    LET hits == {j \in i..Len(text) : j >= 1 /\ MatchAt(text, j, literal)}
    IN  IF hits = {} THEN 0 ELSE CHOOSE j \in hits : \A h \in hits : j <= h

ScriptOpen == <<"<", "s", "c", "r", "i", "p", "t">>
ScriptClose == <<"<", "/", "s", "c", "r", "i", "p", "t", ">">>

\* SCRIPT_PATTERN <script[^>]*>.*?</script> (IGNORECASE, DOTALL) matched at
\* position i: the position of its last character, or 0
ScriptEnd(text, i) ==
    IF ~MatchAt(text, i, ScriptOpen) THEN 0
    ELSE LET gt == FirstChar(text, i + Len(ScriptOpen), ">") IN
         IF gt = 0 THEN 0
         ELSE LET close == FirstLiteral(text, gt + 1, ScriptClose) IN
              IF close = 0 THEN 0 ELSE close + Len(ScriptClose) - 1

\* HTML_PATTERN <[^>]+> matched at position i: the position of its ">", or 0
TagEnd(text, i) ==
    IF ~(text[i].n = 1 /\ text[i].c = "<") THEN 0
    ELSE LET gt == FirstChar(text, i + 1, ">") IN
         IF gt = 0 \/ gt = i + 1 THEN 0 ELSE gt

\* the match of a pattern at position i: the position of its last character, or 0
MatchEnd(pattern, text, i) ==
    IF pattern = "SCRIPT_PATTERN" THEN ScriptEnd(text, i) ELSE TagEnd(text, i)

\* pattern.sub("", text) from position i on
RECURSIVE SubEmpty(_, _, _)
SubEmpty(pattern, text, i) ==
    IF i > Len(text) THEN <<>>
    ELSE LET e == MatchEnd(pattern, text, i) IN
         IF e # 0 THEN SubEmpty(pattern, text, e + 1)
         ELSE <<text[i]>> \o SubEmpty(pattern, text, i + 1)

DangerousSchemes ==
    { <<"j", "a", "v", "a", "s", "c", "r", "i", "p", "t", ":">>,
      <<"d", "a", "t", "a", ":">>,
      <<"v", "b", "s", "c", "r", "i", "p", "t", ":">>,
      <<"a", "b", "o", "u", "t", ":">> }

\* URL_PATTERN.search(text)
HasDangerousUrl(text) ==
    \E literal \in DangerousSchemes : FirstLiteral(text, 1, literal) # 0

\* html.escape(text) with quote=True
EscapeChar(e) ==
    CASE e.c = "&" -> Str(<<"&", "a", "m", "p", ";">>)
      [] e.c = "<" -> Str(<<"&", "l", "t", ";">>)
      [] e.c = ">" -> Str(<<"&", "g", "t", ";">>)
      [] e.c = "\"" -> Str(<<"&", "q", "u", "o", "t", ";">>)
      [] e.c = "'" -> Str(<<"&", "#", "x", "2", "7", ";">>)
      [] OTHER -> <<e>>

RECURSIVE HtmlEscape(_)
HtmlEscape(text) ==
    IF Len(text) = 0 THEN <<>> ELSE EscapeChar(Head(text)) \o HtmlEscape(Tail(text))

IsSpace(e) == e.c \in Whitespace

\* re.sub(r"\s+", " ", text)
RECURSIVE CollapseSpaces(_)
CollapseSpaces(text) ==
    IF Len(text) = 0 THEN <<>>
    ELSE IF IsSpace(Head(text))
    THEN IF Len(text) > 1 /\ IsSpace(text[2])
         THEN CollapseSpaces(Tail(text))
         ELSE <<Ch(" ")>> \o CollapseSpaces(Tail(text))
    ELSE <<Head(text)>> \o CollapseSpaces(Tail(text))

\* text.strip()
RECURSIVE LStrip(_)
LStrip(text) ==
    IF Len(text) > 0 /\ IsSpace(Head(text)) THEN LStrip(Tail(text)) ELSE text

RECURSIVE RStrip(_)
RStrip(text) ==
    IF Len(text) > 0 /\ IsSpace(text[Len(text)])
    THEN RStrip(SubSeq(text, 1, Len(text) - 1)) ELSE text

Strip(text) == RStrip(LStrip(text))

SanitizeTagsFirst(content) ==
    IF TextLen(content) > MAX_MESSAGE_LENGTH
    THEN [raised |-> "Message too long", value |-> <<>>]
    ELSE LET noTags == SubEmpty("HTML_PATTERN", content, 1) IN
         IF HasDangerousUrl(noTags)
         THEN [raised |-> "Message contains potentially dangerous URLs", value |-> <<>>]
         ELSE [raised |-> "none",
               value |-> Strip(CollapseSpaces(HtmlEscape(SubEmpty("SCRIPT_PATTERN", noTags, 1))))]

\* MessageSanitizer.sanitize_message: the text returned, or the ValueError raised
sanitize_message(content) ==
    IF TextLen(content) > MAX_MESSAGE_LENGTH
    THEN [raised |-> "Message too long", value |-> <<>>]
    ELSE LET noScript == SubEmpty("SCRIPT_PATTERN", content, 1) IN
         IF HasDangerousUrl(noScript)
         THEN [raised |-> "Message contains potentially dangerous URLs", value |-> <<>>]
         ELSE [raised |-> "none",
               value |-> Strip(CollapseSpaces(HtmlEscape(SubEmpty("HTML_PATTERN", noScript, 1))))]

MaxIdLength == 100

IdChars == Lowercase \cup Uppercase \cup DigitChars \cup {"-", "_"}

\* re.match(r"^[a-zA-Z0-9\-_]+$", id): $ also matches before a final newline
MatchesIdPattern(id) ==
    LET body == IF Len(id) > 0 /\ id[Len(id)].c = "\n"
                THEN SubSeq(id, 1, Len(id) - 1) ELSE id
    IN  /\ Len(body) > 0
        /\ \A i \in 1..Len(body) : body[i].c \in IdChars

\* MessageSanitizer.validate_conversation_id: "none" or the ValueError raised
validate_conversation_id(id) ==
    IF TextLen(id) > MaxIdLength THEN "Conversation ID too long"
    ELSE IF ~MatchesIdPattern(id) THEN "Conversation ID contains invalid characters"
    ELSE "none"

\* SecureIdGenerator.generate_conversation_id: secrets.token_urlsafe(32) is 43
\* characters of [A-Za-z0-9_-]; the k-th id handed out differs from the others
generate_conversation_id(k) == <<Ch("g"), Ch(Digits[k])>> \o Fill(41)

(***************************************************************************)
(* Conversation and ConversationMessage (models.py).                       *)
(***************************************************************************)
ConversationMessage(role, content, t) ==
    [role |-> role, content |-> content, timestamp |-> t]

\* Conversation.create_new(conversation_id) with a non-empty id.
create_new(id, t) ==
    [id |-> id, messages |-> <<>>, created_at |-> t, last_updated |-> t]

MaxContentLength == 100000

AddMessageFirst(conv, role, content, t) ==
    IF role \notin {"user", "assistant"}
    THEN [raised |-> "Invalid message role", conv |-> conv]
    ELSE IF Len(Strip(content)) = 0
    THEN [raised |-> "Message content cannot be empty", conv |-> conv]
    ELSE [raised |-> "none",
          conv |-> [conv EXCEPT
                      !.messages = <<ConversationMessage(role, content, t)>> \o @,
                      !.last_updated = t]]

AddMessageKeepsStamp(conv, role, content, t) ==
    IF role \notin {"user", "assistant"}
    THEN [raised |-> "Invalid message role", conv |-> conv]
    ELSE IF Len(Strip(content)) = 0
    THEN [raised |-> "Message content cannot be empty", conv |-> conv]
    ELSE IF TextLen(content) > MaxContentLength
    THEN [raised |-> "Message content too long", conv |-> conv]
    ELSE [raised |-> "none",
          conv |-> [conv EXCEPT
                      !.messages = Append(@, ConversationMessage(role, content, t))]]

\* Conversation.add_message(role, content) at time t: the conversation with
\* the message appended, or the ConversationValidationError raised
add_message(conv, role, content, t) ==
    IF role \notin {"user", "assistant"}
    THEN [raised |-> "Invalid message role", conv |-> conv]
    ELSE IF Len(Strip(content)) = 0
    THEN [raised |-> "Message content cannot be empty", conv |-> conv]
    ELSE IF TextLen(content) > MaxContentLength
    THEN [raised |-> "Message content too long", conv |-> conv]
    ELSE [raised |-> "none",
          conv |-> [conv EXCEPT
                      !.messages = Append(@, ConversationMessage(role, content, t)),
                      !.last_updated = t]]

\* len(message.content) // 4 + 10
message_tokens(message) == (TextLen(message.content) \div 4) + 10

\* Conversation.get_context_for_llm: the loop from message i down to the
\* oldest, with estimated_tokens and context_messages so far
RECURSIVE ContextLoop(_, _, _, _, _)
ContextLoop(messages, i, max_tokens, estimated_tokens, context_messages) ==
    IF i = 0 THEN context_messages
    ELSE IF estimated_tokens + message_tokens(messages[i]) > max_tokens
            /\ Len(context_messages) > 0
    THEN context_messages
    ELSE ContextLoop(messages, i - 1, max_tokens,
                     estimated_tokens + message_tokens(messages[i]),
                     <<[role |-> messages[i].role, content |-> messages[i].content]>>
                        \o context_messages)

ContextNewestFirst(conv, max_tokens) ==
    Reversed(ContextLoop(conv.messages, Len(conv.messages), max_tokens, 0, <<>>))

ContextIgnoresBudget(conv, max_tokens) ==
    [i \in 1..Len(conv.messages) |->
        [role |-> conv.messages[i].role, content |-> conv.messages[i].content]]

get_context_for_llm(conv, max_tokens) ==
    ContextLoop(conv.messages, Len(conv.messages), max_tokens, 0, <<>>)

(***************************************************************************)
(* The OrderedDict of the store: a sequence of conversations, the least    *)
(* recently used first.                                                    *)
(***************************************************************************)
Keys(store) == [i \in 1..Len(store) |-> store[i].id]

Contains(store, id) == \E i \in 1..Len(store) : store[i].id = id

GetItem(store, id) == store[CHOOSE i \in 1..Len(store) : store[i].id = id]

\* del d[id] / d.pop(id, None)
DelItem(store, id) ==
    LET Other(c) == c.id # id IN SelectSeq(store, Other)

\* d[conv.id] = conv: an existing key keeps its place, a new key goes last
SetItem(store, conv) ==
    IF Contains(store, conv.id)
    THEN [i \in 1..Len(store) |-> IF store[i].id = conv.id THEN conv ELSE store[i]]
    ELSE Append(store, conv)

MoveToEndSkipped(store, id) == store

\* d.move_to_end(id)
MoveToEnd(store, id) == Append(DelItem(store, id), GetItem(store, id))

(***************************************************************************)
(* InMemoryConversationStore (storage.py).  Each operation holds the lock  *)
(* from start to end; it maps the store to the new store and the result.   *)
(***************************************************************************)
NeverExpired(conv, t, ttl) == FALSE

ExpiredAtTtl(conv, t, ttl) == t - conv.last_updated >= ttl

\* now - conversation.last_updated > self.conversation_ttl
_is_expired(conv, t, ttl) == t - conv.last_updated > ttl

\* get_conversation that stamps the conversation it returns
GetConversationTouches(store, id, t, ttl) ==
    IF ~Contains(store, id)
    THEN [store |-> store, result |-> None]
    ELSE IF _is_expired(GetItem(store, id), t, ttl)
    THEN [store |-> DelItem(store, id), result |-> None]
    ELSE LET touched == [GetItem(store, id) EXCEPT !.last_updated = t]
         IN  [store |-> MoveToEnd(SetItem(store, touched), id), result |-> touched]

get_conversation(store, id, t, ttl) ==
    IF ~Contains(store, id)
    THEN [store |-> store, result |-> None]
    ELSE IF _is_expired(GetItem(store, id), t, ttl)
    THEN [store |-> DelItem(store, id), result |-> None]
    ELSE [store |-> MoveToEnd(store, id), result |-> GetItem(store, id)]

TrimKeepsOldest(messages, maxMsgs) ==
    IF Len(messages) > maxMsgs THEN SubSeq(messages, 1, maxMsgs) ELSE messages

\* storage.py 85-89: keep the most recent messages
Trim(messages, maxMsgs) ==
    IF Len(messages) > maxMsgs THEN PySuffix(messages, maxMsgs) ELSE messages

EvictNothing(store, maxConvs) == store

\* storage.py 99-102: drop the oldest entry while over the cap
RECURSIVE Evict(_, _)
Evict(store, maxConvs) ==
    IF Len(store) > maxConvs
    THEN Evict(Tail(store), maxConvs)
    ELSE store

\* storage.py 85-92: what save_conversation makes of the object handed to it
SavedKeepsStamp(conv, t, maxMsgs) ==
    [conv EXCEPT !.messages = Trim(conv.messages, maxMsgs)]

Saved(conv, t, maxMsgs) ==
    [conv EXCEPT !.messages = Trim(conv.messages, maxMsgs), !.last_updated = t]

save_conversation(store, conv, t, maxMsgs, maxConvs) ==
    LET saved == Saved(conv, t, maxMsgs)
    IN  Evict(MoveToEnd(SetItem(store, saved), saved.id), maxConvs)

DeleteReportsTrue(store, id) ==
    [store |-> DelItem(store, id), result |-> TRUE]

\* self._conversations.pop(conversation_id, None) is not None
delete_conversation(store, id) ==
    [store |-> DelItem(store, id), result |-> Contains(store, id)]

\* list_conversations that leaves out the conversations past their ttl
ListSkipsExpired(store, limit) ==
    LET Alive(c) == ~_is_expired(c, now, conversation_ttl)
    IN  PyPrefix(Reversed(Keys(SelectSeq(store, Alive))), limit)

list_conversations(store, limit) == PyPrefix(Reversed(Keys(store)), limit)

cleanup_expired(store, t, ttl) ==
    LET Expired(c) == _is_expired(c, t, ttl)
        Fresh(c) == ~_is_expired(c, t, ttl)
    IN  [store |-> SelectSeq(store, Fresh),
         result |-> Len(SelectSeq(store, Expired))]

\* the entries of `before` whose key `after` no longer holds, oldest first
\* the store holds the id and the conversation has not outlived the ttl
Fresh(store, id, t) ==
    Contains(store, id) /\ t - GetItem(store, id).last_updated <= conversation_ttl

Dropped(before, after) ==
    LET Gone(c) == ~Contains(after, c.id) IN SelectSeq(before, Gone)

(***************************************************************************)
(* RateLimiter (security.py).  _requests is a dict in insertion order: a   *)
(* sequence of [identifier, times].                                        *)
(***************************************************************************)
Tracked(reqs, identifier) == \E i \in 1..Len(reqs) : reqs[i].identifier = identifier

\* self._requests.get(identifier, [])
HistoryOfAll(reqs, identifier) ==
    IF Len(reqs) = 0 THEN <<>>
    ELSE IF Len(reqs) = 1 THEN reqs[1].times
    ELSE reqs[1].times \o reqs[2].times

History(reqs, identifier) ==
    IF Tracked(reqs, identifier)
    THEN reqs[CHOOSE i \in 1..Len(reqs) : reqs[i].identifier = identifier].times
    ELSE <<>>

RecentKeepsAll(times, window_start) == times

\* [req_time for req_time in times if req_time > window_start]
Recent(times, window_start) ==
    LET Inside(req_time) == req_time > window_start IN SelectSeq(times, Inside)

RECURSIVE SeqMin(_)
SeqMin(times) ==
    IF Len(times) = 1 THEN Head(times)
    ELSE LET m == SeqMin(Tail(times)) IN IF Head(times) <= m THEN Head(times) ELSE m

\* the first identifier in dict order
FirstIdentifier(reqs) == reqs[1].identifier

\* min(self._requests.keys(), key=lambda k: min(self._requests[k]) if self._requests[k] else 0):
\* the first identifier, in dict order, whose oldest timestamp is smallest
OldestIdentifier(reqs) ==
    LET Key(i) == IF Len(reqs[i].times) = 0 THEN 0 ELSE SeqMin(reqs[i].times)
        first == CHOOSE i \in 1..Len(reqs) :
                    /\ \A j \in 1..Len(reqs) : Key(i) <= Key(j)
                    /\ \A j \in 1..(i - 1) : Key(j) > Key(i)
    IN  reqs[first].identifier

Untrack(reqs, identifier) ==
    LET Other(e) == e.identifier # identifier IN SelectSeq(reqs, Other)

\* self._requests[identifier] = times
Record(reqs, identifier, times) ==
    IF Tracked(reqs, identifier)
    THEN [i \in 1..Len(reqs) |->
            IF reqs[i].identifier = identifier
            THEN [identifier |-> identifier, times |-> times] ELSE reqs[i]]
    ELSE Append(reqs, [identifier |-> identifier, times |-> times])

\* is_allowed with the attempt recorded before the limit is checked
IsAllowedRecordsDenied(reqs, identifier, t, maxReq, window, maxIds) ==
    LET window_start == t - window
        recent_requests == Recent(History(reqs, identifier), window_start)
        atCapacity == ~Tracked(reqs, identifier) /\ Len(reqs) >= maxIds
        kept == IF atCapacity THEN Untrack(reqs, OldestIdentifier(reqs)) ELSE reqs
    IN  [requests |-> Record(kept, identifier, Append(recent_requests, t)),
         result |-> Len(recent_requests) < maxReq,
         evicted |-> IF atCapacity THEN {OldestIdentifier(reqs)} ELSE {}]

\* is_allowed: the new _requests, the answer, and the identifiers evicted
is_allowed(reqs, identifier, t, maxReq, window, maxIds) ==
    LET window_start == t - window
        recent_requests == Recent(History(reqs, identifier), window_start)
        atCapacity == ~Tracked(reqs, identifier) /\ Len(reqs) >= maxIds
        kept == IF atCapacity THEN Untrack(reqs, OldestIdentifier(reqs)) ELSE reqs
    IN  IF Len(recent_requests) >= maxReq
        THEN [requests |-> reqs, result |-> FALSE, evicted |-> {}]
        ELSE [requests |-> Record(kept, identifier, Append(recent_requests, t)),
              result |-> TRUE,
              evicted |-> IF atCapacity THEN {OldestIdentifier(reqs)} ELSE {}]

CleanupKeepsEmpty(reqs, t, window) ==
    [i \in 1..Len(reqs) |->
        [identifier |-> reqs[i].identifier,
         times |-> Recent(reqs[i].times, t - window)]]

cleanup_old_entries(reqs, t, window) ==
    LET window_start == t - window
        Live(e) == Len(Recent(e.times, window_start)) > 0
        live == SelectSeq(reqs, Live)
    IN  [i \in 1..Len(live) |->
            [identifier |-> live[i].identifier,
             times |-> Recent(live[i].times, window_start)]]

\* a NoopRateLimiter that counts like a RateLimiter
NoopCounts(reqs, identifier, t, maxReq, window, maxIds) ==
    is_allowed(reqs, identifier, t, maxReq, window, maxIds)

\* NoopRateLimiter.is_allowed (security.py 207-208): return True
NoopIsAllowed(reqs, identifier, t, maxReq, window, maxIds) ==
    [requests |-> reqs, result |-> TRUE, evicted |-> {}]

\* self.rate_limiter.is_allowed(client_identifier) in ConversationService:
\* the method of the class the service was built with
ServiceIsAllowed(reqs, identifier, t) ==
    IF service_rate_limiter = "NoopRateLimiter"
    THEN NoopIsAllowed(reqs, identifier, t, max_requests, window_seconds, max_identifiers)
    ELSE is_allowed(reqs, identifier, t, max_requests, window_seconds, max_identifiers)

(***************************************************************************)
(* ConversationService (service.py).  A method maps the world (the store,  *)
(* the limiter's _requests, the ids generated so far) to the world it      *)
(* leaves, with the value returned or the ConversationValidationError      *)
(* raised.  An absent conversation_id (None or "", both falsy) is NoId.    *)
(***************************************************************************)
NoId == <<>>

\* the texts callers send
TextHi == Str(<<"h", "i">>)
TextUrl == Str(<<"c", "l", "i", "c", "k", " ", "j", "a", "v", "a", "s", "c", "r",
                 "i", "p", "t", ":", "d", "o", "E", "v", "i", "l", "(", ")">>)
TextMarkup == Str(<<"<", "b", "r", ">", " ">>)
TextTooLong == Fill(MAX_MESSAGE_LENGTH + 1)
TextOk == Str(<<"o", "k">>)
UserTexts == {TextHi, TextUrl, TextMarkup, TextTooLong}
AssistantTexts == {TextOk, <<>>, TextTooLong}

\* sanitize_message of each text of UserTexts, computed once
SanitizedUserTexts == [message \in UserTexts |-> sanitize_message(message)]

\* self.sanitizer.sanitize_message(message)
Sanitize(message) ==
    IF message \in UserTexts THEN SanitizedUserTexts[message]
    ELSE sanitize_message(message)

Raise(world, message) == [raised |-> message, world |-> world, result |-> None]

Return(world, value) == [raised |-> "none", world |-> world, result |-> value]

GetOrCreateWithoutSave(world, conversation_id, client_identifier, t) ==
    LET limit == ServiceIsAllowed(world.requests, client_identifier, t)
        counted == [world EXCEPT !.requests = limit.requests]
        named == Len(conversation_id) > 0
        got == IF named
               THEN get_conversation(world.store, conversation_id, t, conversation_ttl)
               ELSE [store |-> world.store, result |-> None]
        new_id == IF named THEN conversation_id
                  ELSE generate_conversation_id(world.generated + 1)
    IN  IF ~limit.result
        THEN Raise(counted, "Rate limit exceeded")
        ELSE IF named /\ validate_conversation_id(conversation_id) # "none"
        THEN Raise(counted, "Invalid conversation ID")
        ELSE IF got.result # None
        THEN Return([counted EXCEPT !.store = got.store], got.result)
        ELSE Return([store |-> got.store,
                     requests |-> limit.requests,
                     generated |-> IF named THEN world.generated
                                   ELSE world.generated + 1],
                    create_new(new_id, t))

get_or_create_conversation(world, conversation_id, client_identifier, t) ==
    LET limit == ServiceIsAllowed(world.requests, client_identifier, t)
        counted == [world EXCEPT !.requests = limit.requests]
        named == Len(conversation_id) > 0
        got == IF named
               THEN get_conversation(world.store, conversation_id, t, conversation_ttl)
               ELSE [store |-> world.store, result |-> None]
        new_id == IF named THEN conversation_id
                  ELSE generate_conversation_id(world.generated + 1)
        conversation == create_new(new_id, t)
    IN  IF ~limit.result
        THEN Raise(counted, "Rate limit exceeded")
        ELSE IF named /\ validate_conversation_id(conversation_id) # "none"
        THEN Raise(counted, "Invalid conversation ID")
        ELSE IF got.result # None
        THEN Return([counted EXCEPT !.store = got.store], got.result)
        ELSE Return([store |-> save_conversation(got.store, conversation, t,
                                  max_messages_per_conversation, max_conversations),
                     requests |-> limit.requests,
                     generated |-> IF named THEN world.generated
                                   ELSE world.generated + 1],
                    Saved(conversation, t, max_messages_per_conversation))

\* service.py 97-102 and 122-127: get_or_create_conversation, add_message, save
AppendAndSave(world, conversation_id, role, content, client_identifier, t) ==
    LET found == get_or_create_conversation(world, conversation_id, client_identifier, t)
        added == add_message(found.result, role, content, t)
    IN  IF found.raised # "none" THEN found
        ELSE IF added.raised # "none" THEN Raise(found.world, added.raised)
        ELSE Return([found.world EXCEPT
                        !.store = save_conversation(found.world.store, added.conv, t,
                                      max_messages_per_conversation, max_conversations)],
                    Saved(added.conv, t, max_messages_per_conversation))

\* add_user_message without a limiter check of its own
AddUserMessageOneCheck(world, conversation_id, message, client_identifier, t) ==
    LET sanitized == Sanitize(message)
    IN  IF sanitized.raised # "none" THEN Raise(world, "Invalid message")
        ELSE AppendAndSave(world, conversation_id, "user", sanitized.value,
                           client_identifier, t)

add_user_message(world, conversation_id, message, client_identifier, t) ==
    LET limit == ServiceIsAllowed(world.requests, client_identifier, t)
        counted == [world EXCEPT !.requests = limit.requests]
        sanitized == Sanitize(message)
    IN  IF ~limit.result THEN Raise(counted, "Rate limit exceeded")
        ELSE IF sanitized.raised # "none" THEN Raise(counted, "Invalid message")
        ELSE AppendAndSave(counted, conversation_id, "user", sanitized.value,
                           client_identifier, t)

\* service.py 118-120
TruncatedAfterLimit(message) ==
    IF TextLen(message) > MAX_MESSAGE_LENGTH
    THEN TextPrefix(message, MAX_MESSAGE_LENGTH) \o Str(<<".", ".", ".">>)
    ELSE message

Truncated(message) ==
    IF TextLen(message) > MAX_MESSAGE_LENGTH
    THEN TextPrefix(message, MAX_MESSAGE_LENGTH - 3) \o Str(<<".", ".", ".">>)
    ELSE message

add_assistant_message(world, conversation_id, message, client_identifier, t) ==
    AppendAndSave(world, conversation_id, "assistant", Truncated(message),
                  client_identifier, t)

get_conversation_context(world, conversation_id, max_tokens, t) ==
    LET got == get_conversation(world.store, conversation_id, t, conversation_ttl) IN
    Return([world EXCEPT !.store = got.store],
           IF got.result = None THEN <<>> ELSE get_context_for_llm(got.result, max_tokens))

\* datetime.isoformat()
isoformat(t) == [iso |-> t]

get_conversation_summary(world, conversation_id, t) ==
    LET got == get_conversation(world.store, conversation_id, t, conversation_ttl)
        conversation == got.result
    IN  Return([world EXCEPT !.store = got.store],
               IF conversation = None THEN None
               ELSE [id |-> conversation.id,
                     message_count |-> Len(conversation.messages),
                     created_at |-> isoformat(conversation.created_at),
                     last_updated |-> isoformat(conversation.last_updated),
                     latest_message |->
                        IF Len(conversation.messages) > 0
                        THEN [text |-> TextPrefix(
                                conversation.messages[Len(conversation.messages)].content,
                                100) \o Str(<<".", ".", ".">>)]
                        ELSE None])

(***************************************************************************)
(* SpecStore: a caller drives an InMemoryConversationStore directly, as    *)
(* tests/test_conversation_storage.py does: it builds a conversation with  *)
(* Conversation.create_new and add_message and hands it to the store.      *)
(***************************************************************************)
IdA == Str(<<"A">>)
IdB == Str(<<"B">>)
IdC == Str(<<"C">>)
StoreIds == {IdA, IdB, IdC}

\* the k-th message a caller appends: "Message k"
Content(k) == Str(<<"M", "e", "s", "s", "a", "g", "e", " ">>) \o <<Ch(k)>>
BuiltMessages(k, t) ==
    [i \in 1..k |-> ConversationMessage("user", Content(Digits[i]), t)]

\* create_new(id) followed by k add_message calls, all at time t
Built(id, k, t) == [create_new(id, t) EXCEPT !.messages = BuiltMessages(k, t)]

Clients == {"c1", "c2"}

Requests == {"r1", "r2"}
Threads == {"t1", "t2"}
Unlocked == "unlocked"

\* a RateLimiter no caller has reached
IdleLimiter == [requests |-> <<>>, max_requests |-> 0, window_seconds |-> 1]

\* no request is being served
InitBudgetIdle ==
    /\ lm_calls = [r \in Requests |-> 0]
    /\ lm_budget = [r \in Requests |-> 0]
    /\ llm_invoked = [r \in Requests |-> 0]
    /\ global_rate_limiter = IdleLimiter
    /\ per_client_rate_limiter = IdleLimiter
    /\ service_rate_limiter = "RateLimiter"

\* a thread that is in no call
Idle == [pc |-> "idle", locked |-> FALSE, op |-> "none", id |-> <<>>, content |-> <<>>,
         conv |-> None, added |-> 0]

\* no thread is in a call
InitThreadsIdle ==
    /\ lock = Unlocked
    /\ threads = [t \in Threads |-> Idle]
    /\ allocated = 0
    /\ removed = {}

InitLimiterIdle ==
    /\ requests = <<>>
    /\ max_requests = 0
    /\ window_seconds = 1
    /\ max_identifiers = 1
    /\ granted = [c \in Clients |-> <<>>]

InitStore ==
    /\ sent = <<>>
    /\ InitBudgetIdle
    /\ InitThreadsIdle
    /\ now = 0
    /\ conversations = <<>>
    /\ max_conversations \in 1..MaxCap
    /\ max_messages_per_conversation \in 1..MaxMsgCap
    /\ conversation_ttl \in 1..MaxTTL
    /\ generated = 0
    /\ ret = [op |-> "init"]
    /\ InitLimiterIdle

Tick ==
    /\ now < MaxTime
    /\ now' = now + 1
    /\ ret' = [op |-> "tick"]
    /\ UNCHANGED <<apiVars, sent, budgetVars, threadVars, conversations, storeConfig, requests, limiterConfig, generated, granted>>

\* store.get_conversation(id), id drawn from ids
StoreGet(ids) ==
    \E id \in ids :
        LET r == get_conversation(conversations, id, now, conversation_ttl) IN
        /\ conversations' = r.store
        /\ ret' = [op |-> "get_conversation", id |-> id, result |-> r.result]
        /\ UNCHANGED <<apiVars, sent, budgetVars, threadVars, now, storeConfig, requests, limiterConfig, generated, granted>>

\* store.save_conversation(conv), conv built by the caller with k messages
StoreSave(ids, counts) ==
    \E id \in ids, k \in counts :
        LET conv == Built(id, k, now) IN
        /\ conversations' = save_conversation(conversations, conv, now,
                                max_messages_per_conversation, max_conversations)
        /\ ret' = [op |-> "save_conversation", id |-> id, n |-> k,
                   evicted |-> Dropped(SetItem(conversations, conv), conversations')]
        /\ UNCHANGED <<apiVars, sent, budgetVars, threadVars, now, storeConfig, requests, limiterConfig, generated, granted>>

StoreDelete(ids) ==
    \E id \in ids :
        LET r == delete_conversation(conversations, id) IN
        /\ conversations' = r.store
        /\ ret' = [op |-> "delete_conversation", id |-> id, result |-> r.result]
        /\ UNCHANGED <<apiVars, sent, budgetVars, threadVars, now, storeConfig, requests, limiterConfig, generated, granted>>

StoreList ==
    \E limit \in 0..MaxLimit :
        /\ ret' = [op |-> "list_conversations", limit |-> limit,
                   result |-> list_conversations(conversations, limit)]
        /\ UNCHANGED <<apiVars, sent, budgetVars, threadVars, now, conversations, storeConfig, requests, limiterConfig, generated, granted>>

StoreCleanup ==
    LET r == cleanup_expired(conversations, now, conversation_ttl) IN
    /\ conversations' = r.store
    /\ ret' = [op |-> "cleanup_expired", result |-> r.result]
    /\ UNCHANGED <<apiVars, sent, budgetVars, threadVars, now, storeConfig, requests, limiterConfig, generated, granted>>

\* SpecStore: three ids, every conversation saved with one message.
NextStore ==
    \/ Tick
    \/ StoreGet(StoreIds)
    \/ StoreSave(StoreIds, {1})
    \/ StoreDelete(StoreIds)
    \/ StoreList
    \/ StoreCleanup

SpecStore == InitStore /\ [][NextStore]_vars

\* SpecTrim: one id, conversations saved with 0..MaxInMsgs messages.
NextTrim ==
    \/ Tick
    \/ StoreGet({IdA})
    \/ StoreSave({IdA}, 0..MaxInMsgs)
    \/ StoreDelete({IdA})
    \/ StoreCleanup

SpecTrim == InitStore /\ [][NextTrim]_vars

(***************************************************************************)
(* SpecLimiter: callers drive a RateLimiter directly, as TestRateLimiter   *)
(* does.  max_identifiers is at least 1.  `sent` holds, per identifier,    *)
(* the times of the calls is_allowed granted within the window, evicted    *)
(* or not (the last MaxReq + 1 of them).                                   *)
(***************************************************************************)
InitStoreIdle ==
    /\ conversations = <<>>
    /\ max_conversations = 1
    /\ max_messages_per_conversation = 1
    /\ conversation_ttl = 1
    /\ generated = 0

InitLimiter ==
    /\ sent = [c \in Clients |-> <<>>]
    /\ InitBudgetIdle
    /\ InitThreadsIdle
    /\ now = 0
    /\ requests = <<>>
    /\ max_requests \in 0..MaxReq
    /\ window_seconds \in 1..MaxWindow
    /\ max_identifiers \in 1..MaxIdents
    /\ granted = [c \in Clients |-> <<>>]
    /\ ret = [op |-> "init"]
    /\ InitStoreIdle

LimiterIsAllowed ==
    \E identifier \in Clients :
        LET r == is_allowed(requests, identifier, now,
                            max_requests, window_seconds, max_identifiers) IN
        /\ requests' = r.requests
        /\ granted' = [c \in Clients |->
                          IF c = identifier /\ r.result THEN Append(granted[c], now)
                          ELSE IF c \in r.evicted THEN <<>>
                          ELSE granted[c]]
        /\ sent' = [sent EXCEPT ![identifier] =
                        LET Inside(t) == now - t < window_seconds IN
                        IF r.result
                        THEN PySuffix(Append(SelectSeq(@, Inside), now), MaxReq + 1)
                        ELSE @]
        /\ ret' = [op |-> "is_allowed", id |-> identifier, result |-> r.result]
        /\ UNCHANGED <<apiVars, budgetVars, threadVars, now, conversations, storeConfig, limiterConfig, generated>>

LimiterCleanup ==
    /\ requests' = cleanup_old_entries(requests, now, window_seconds)
    /\ ret' = [op |-> "cleanup_old_entries"]
    /\ UNCHANGED <<apiVars, sent, budgetVars, threadVars, now, conversations, storeConfig, limiterConfig, generated, granted>>

NextLimiter == Tick \/ LimiterIsAllowed \/ LimiterCleanup

SpecLimiter == InitLimiter /\ [][NextLimiter]_vars

(***************************************************************************)
(* Spec: callers drive a ConversationService built on an                   *)
(* InMemoryConversationStore and a RateLimiter, and read the store.        *)
(***************************************************************************)
IdNewline == Str(<<"A", "\n">>)
IdSlash == Str(<<"i", "n", "v", "a", "l", "i", "d", "/", "i", "d">>)
IdTooLong == Fill(MaxIdLength + 1)

\* the ids a caller may name: chosen ones and those the service handed out
IssuedIds == {generate_conversation_id(k) : k \in 1..generated}
ServiceIds == {NoId, IdA, IdNewline, IdSlash, IdTooLong} \cup IssuedIds
StoredIds == {IdA, IdNewline} \cup IssuedIds

ServiceClients == {"c1"}
DefaultMaxTokens == 8000

World == [store |-> conversations, requests |-> requests, generated |-> generated]

\* the world a method leaves
Leaves(world) ==
    /\ conversations' = world.store
    /\ requests' = world.requests
    /\ generated' = world.generated

\* a call that generates an id needs one left within the bound
CanName(conversation_id) == Len(conversation_id) > 0 \/ generated < MaxGenerated

\* ConversationService(InMemoryConversationStore(max_conversations=1,
\* max_messages_per_conversation=2, conversation_ttl_hours=1),
\* RateLimiter(max_requests=2, window_seconds=1, max_identifiers=1)): two
\* requests per window is the least with which add_user_message, which asks
\* the limiter twice, can succeed.
Init ==
    /\ sent = <<>>
    /\ InitBudgetIdle
    /\ InitThreadsIdle
    /\ now = 0
    /\ conversations = <<>>
    /\ max_conversations = 1
    /\ max_messages_per_conversation = 2
    /\ conversation_ttl = 1
    /\ requests = <<>>
    /\ max_requests = 2
    /\ window_seconds = 1
    /\ max_identifiers = 1
    /\ granted = [c \in Clients |-> <<>>]
    /\ generated = 0
    /\ ret = [op |-> "init"]

GetOrCreateConversation ==
    \E conversation_id \in ServiceIds, client \in ServiceClients :
        LET r == get_or_create_conversation(World, conversation_id, client, now) IN
        /\ CanName(conversation_id)
        /\ Leaves(r.world)
        /\ ret' = [op |-> "get_or_create_conversation", raised |-> r.raised]
        /\ UNCHANGED <<apiVars, sent, budgetVars, threadVars, now, storeConfig, limiterConfig, granted>>

AddUserMessage ==
    \E conversation_id \in ServiceIds, message \in UserTexts, client \in ServiceClients :
        LET r == add_user_message(World, conversation_id, message, client, now) IN
        /\ CanName(conversation_id)
        /\ Leaves(r.world)
        /\ ret' = [op |-> "add_user_message", raised |-> r.raised]
        /\ UNCHANGED <<apiVars, sent, budgetVars, threadVars, now, storeConfig, limiterConfig, granted>>

AddAssistantMessage ==
    \E conversation_id \in ServiceIds, message \in AssistantTexts, client \in ServiceClients :
        LET r == add_assistant_message(World, conversation_id, message, client, now) IN
        /\ CanName(conversation_id)
        /\ Leaves(r.world)
        /\ ret' = [op |-> "add_assistant_message", raised |-> r.raised]
        /\ UNCHANGED <<apiVars, sent, budgetVars, threadVars, now, storeConfig, limiterConfig, granted>>

\* service.get_conversation_context(id, max_tokens)
GetConversationContext(ids, budgets) ==
    \E conversation_id \in ids, max_tokens \in budgets :
        LET r == get_conversation_context(World, conversation_id, max_tokens, now) IN
        /\ Leaves(r.world)
        /\ ret' = [op |-> "get_conversation_context", id |-> conversation_id,
                   max_tokens |-> max_tokens, result |-> r.result]
        /\ UNCHANGED <<apiVars, sent, budgetVars, threadVars, now, storeConfig, limiterConfig, granted>>

GetConversationSummary ==
    \E conversation_id \in StoredIds :
        LET r == get_conversation_summary(World, conversation_id, now) IN
        /\ Leaves(r.world)
        /\ ret' = [op |-> "get_conversation_summary", id |-> conversation_id,
                   found |-> r.result # None,
                   message_count |-> IF r.result # None THEN r.result.message_count
                                     ELSE 0]
        /\ UNCHANGED <<apiVars, sent, budgetVars, threadVars, now, storeConfig, limiterConfig, granted>>

Next ==
    \/ Tick
    \/ GetOrCreateConversation
    \/ AddUserMessage
    \/ AddAssistantMessage
    \/ GetConversationContext(StoredIds, {DefaultMaxTokens})
    \/ GetConversationSummary
    \/ StoreGet(StoredIds)

Spec == Init /\ [][Next]_vars

(***************************************************************************)
(* SpecContext: a store that holds one conversation of up to MaxInMsgs     *)
(* messages, written at time 0 by add_user_message and                     *)
(* add_assistant_message in turn; callers ask for its context.             *)
(***************************************************************************)
\* contents of 1, 40 and 80 characters: 10, 20 and 30 tokens
ContextLengths == {1, 40, 80}
TokenBudgets == {0, 10, 25, 30, 50, 60, DefaultMaxTokens}

RoleOf(i) == IF i % 2 = 1 THEN "user" ELSE "assistant"

Exchanged(lengths) ==
    [i \in 1..Len(lengths) |-> ConversationMessage(RoleOf(i), Fill(lengths[i]), 0)]

Exchanges ==
    UNION {[1..k -> ContextLengths] : k \in 0..MaxInMsgs}

InitContext ==
    /\ sent = <<>>
    /\ InitBudgetIdle
    /\ InitThreadsIdle
    /\ now = 0
    /\ \E lengths \in Exchanges :
          conversations = <<[create_new(IdA, 0) EXCEPT !.messages = Exchanged(lengths)]>>
    /\ max_conversations = 1
    /\ max_messages_per_conversation = MaxInMsgs
    /\ conversation_ttl = 1
    /\ requests = <<>>
    /\ max_requests = 2
    /\ window_seconds = 1
    /\ max_identifiers = 1
    /\ granted = [c \in Clients |-> <<>>]
    /\ generated = 0
    /\ ret = [op |-> "init"]

NextContext ==
    \/ Tick
    \/ GetConversationContext({IdA, IdB}, TokenBudgets)

SpecContext == InitContext /\ [][NextContext]_vars

(***************************************************************************)
(* SpecDialogue: one client talks in one conversation, IdA, through the    *)
(* service; sent is the list of the add_user_message and                   *)
(* add_assistant_message calls that returned since the conversation under  *)
(* IdA was created.                                                        *)
(***************************************************************************)
TextQuote == Str(<<"i", "t", "'", "s">>)
DialogueUserTexts == {TextHi, TextQuote}
DialogueAssistantTexts == {TextOk, TextTooLong}
DialogueBudgets == {20, DefaultMaxTokens}

InitDialogue ==
    /\ sent = <<>>
    /\ InitBudgetIdle
    /\ InitThreadsIdle
    /\ now = 0
    /\ conversations = <<>>
    /\ max_conversations = 1
    /\ max_messages_per_conversation \in 1..MaxInMsgs
    /\ conversation_ttl = 1
    /\ requests = <<>>
    /\ max_requests = 2
    /\ window_seconds = 1
    /\ max_identifiers = 1
    /\ granted = [c \in Clients |-> <<>>]
    /\ generated = 0
    /\ ret = [op |-> "init"]

\* the calls since the conversation was created, after one more has returned
Logged(role, message) ==
    IF Fresh(conversations, IdA, now) THEN Append(sent, [role |-> role, message |-> message])
    ELSE <<[role |-> role, message |-> message]>>

DialogueOpen ==
    \E client \in ServiceClients :
        LET r == get_or_create_conversation(World, IdA, client, now) IN
        /\ Leaves(r.world)
        /\ sent' = IF r.raised = "none" /\ ~Fresh(conversations, IdA, now) THEN <<>> ELSE sent
        /\ ret' = [op |-> "get_or_create_conversation", raised |-> r.raised]
        /\ UNCHANGED <<apiVars, budgetVars, threadVars, now, storeConfig, limiterConfig, granted>>

DialogueUser ==
    \E message \in DialogueUserTexts, client \in ServiceClients :
        LET r == add_user_message(World, IdA, message, client, now) IN
        /\ Leaves(r.world)
        /\ sent' = IF r.raised = "none" THEN Logged("user", message) ELSE sent
        /\ ret' = [op |-> "add_user_message", raised |-> r.raised]
        /\ UNCHANGED <<apiVars, budgetVars, threadVars, now, storeConfig, limiterConfig, granted>>

DialogueAssistant ==
    \E message \in DialogueAssistantTexts, client \in ServiceClients :
        LET r == add_assistant_message(World, IdA, message, client, now) IN
        /\ Leaves(r.world)
        /\ sent' = IF r.raised = "none" THEN Logged("assistant", message) ELSE sent
        /\ ret' = [op |-> "add_assistant_message", raised |-> r.raised]
        /\ UNCHANGED <<apiVars, budgetVars, threadVars, now, storeConfig, limiterConfig, granted>>

DialogueSummary ==
    LET r == get_conversation_summary(World, IdA, now) IN
    /\ Leaves(r.world)
    /\ ret' = [op |-> "get_conversation_summary", id |-> IdA,
               found |-> r.result # None,
               message_count |-> IF r.result # None THEN r.result.message_count ELSE 0]
    /\ UNCHANGED <<apiVars, sent, budgetVars, threadVars, now, storeConfig, limiterConfig, granted>>

NextDialogue ==
    \/ Tick
    \/ DialogueOpen
    \/ DialogueUser
    \/ DialogueAssistant
    \/ GetConversationContext({IdA}, DialogueBudgets)
    \/ DialogueSummary

SpecDialogue == InitDialogue /\ [][NextDialogue]_vars

(***************************************************************************)
(* The per-request LM-call budget (api/lm_budget.py).  _lm_calls and       *)
(* _lm_budget are ContextVars: each request is served in its own context,  *)
(* so each holds one value per request.  wrap_lm_for_budget stores the     *)
(* wrapper as the instance attribute lm.__call__; Python takes the         *)
(* __call__ of the call syntax lm(...) from the type of lm, so only the    *)
(* attribute call lm.__call__(...) runs the wrapper.                       *)
(***************************************************************************)
GlobalSet(variable, request, value) == [r \in Requests |-> value]

\* ContextVar.set(value) in the context of a request
ContextSet(variable, request, value) == [variable EXCEPT ![request] = value]

\* reset_request_lm_budget(budget) in the context of a request: the new
\* _lm_calls and _lm_budget
reset_request_lm_budget(calls, budgets, request, budget) ==
    [lm_calls |-> ContextSet(calls, request, 0),
     lm_budget |-> IF budget # None THEN ContextSet(budgets, request, budget.value)
                   ELSE budgets]

\* increment_and_check_budget() in the context of a request: the new
\* _lm_calls and whether ConversationValidationError is raised
increment_and_check_budget(calls, budgets, request) ==
    LET new_calls == calls[request] + 1 IN
    [lm_calls |-> ContextSet(calls, request, new_calls),
     raised |-> new_calls > budgets[request]]

\* lm_budget_middleware and direct callers: reset_request_lm_budget
ResetRequestLmBudget ==
    \E request \in Requests,
       budget \in {None} \cup {[value |-> b] : b \in 0..MaxBudget} :
        LET r == reset_request_lm_budget(lm_calls, lm_budget, request, budget) IN
        /\ lm_calls' = r.lm_calls
        /\ lm_budget' = r.lm_budget
        /\ llm_invoked' = [llm_invoked EXCEPT ![request] = 0]
        /\ ret' = [op |-> "reset_request_lm_budget", request |-> request]
        /\ UNCHANGED <<apiVars, sent, threadVars, now, conversations, storeConfig, requests,
                       limiterConfig, generated, granted>>

\* lm.__call__(...): the wrapper _wrapped, increment_and_check_budget and
\* then original_call
LmCallAttribute ==
    \E request \in Requests :
        LET r == increment_and_check_budget(lm_calls, lm_budget, request) IN
        /\ lm_calls[request] <= MaxBudget
        /\ lm_calls' = r.lm_calls
        /\ llm_invoked' = IF r.raised THEN llm_invoked
                          ELSE [llm_invoked EXCEPT ![request] = @ + 1]
        /\ ret' = [op |-> "lm.__call__", request |-> request, raised |-> r.raised]
        /\ UNCHANGED <<apiVars, sent, lm_budget, threadVars, now, conversations, storeConfig,
                       requests, limiterConfig, generated, granted>>

\* lm(...): type(lm).__call__, the call the class defines, without the wrapper
LmCall ==
    \E request \in Requests :
        /\ llm_invoked[request] <= MaxBudget
        /\ llm_invoked' = [llm_invoked EXCEPT ![request] = @ + 1]
        /\ ret' = [op |-> "lm", request |-> request, raised |-> FALSE]
        /\ UNCHANGED <<apiVars, sent, lm_calls, lm_budget, threadVars, now, conversations,
                       storeConfig, requests, limiterConfig, generated, granted>>

\* the budget each context starts with is the default of _lm_budget,
\* PER_REQUEST_LM_CALL_BUDGET
InitBudget ==
    /\ sent = <<>>
    /\ InitThreadsIdle
    /\ now = 0
    /\ InitStoreIdle
    /\ InitLimiterIdle
    /\ lm_calls = [r \in Requests |-> 0]
    /\ \E default \in 0..MaxBudget : lm_budget = [r \in Requests |-> default]
    /\ llm_invoked = [r \in Requests |-> 0]
    /\ global_rate_limiter = IdleLimiter
    /\ per_client_rate_limiter = IdleLimiter
    /\ service_rate_limiter = "RateLimiter"
    /\ ret = [op |-> "init"]

NextBudget == ResetRequestLmBudget \/ LmCallAttribute \/ LmCall

SpecBudget == InitBudget /\ [][NextBudget]_vars

(***************************************************************************)
(* SpecThreads: threads calling one ConversationService at once.  A        *)
(* Conversation is an object: `obj` names it, the store and the threads'   *)
(* locals hold references to it, and a mutation in place is seen through   *)
(* every reference.  A store method is two steps, entering `with           *)
(* self._lock` and running its body to the release; a service method is    *)
(* the steps between its store calls.  Every thread is the same client     *)
(* and names the same conversation id, and the calls all fall within one   *)
(* instant of the clock.                                                   *)
(***************************************************************************)
\* the message thread t sends
ThreadText(t) == IF t = "t1" THEN TextHi ELSE TextOk

AcquireUnguarded(l) == TRUE

\* with self._lock (storage.py:63 threading.Lock): free to enter
CanAcquire(l) == l = Unlocked

\* the objects the map holds
Objs(store) == {store[i].obj : i \in 1..Len(store)}

\* a reference after the object `value.obj` was mutated in place to `value`
Through(ref, value) == IF ref # None /\ ref.obj = value.obj THEN value ELSE ref

\* the map after the object `value.obj` was mutated in place to `value`
InStore(store, value) == [i \in 1..Len(store) |-> Through(store[i], value)]

\* the threads after t moved to `mine` and mutated `value.obj` to `value`
SeenBy(t, mine, value) ==
    [u \in Threads |-> IF u = t THEN mine
                       ELSE [threads[u] EXCEPT !.conv = Through(@, value)]]

Goto(t, mine) == [threads EXCEPT ![t] = mine]

\* t back in no call
Returned(t) == [Idle EXCEPT !.added = threads[t].added]

\* service.py 41-51: get_or_create_conversation checks the limiter and the id
EnterGetOrCreate(t, call) ==
    LET limit == is_allowed(requests, "c1", now,
                            max_requests, window_seconds, max_identifiers)
    IN  /\ requests' = limit.requests
        /\ IF ~limit.result
           THEN /\ threads' = Goto(t, Returned(t))
                /\ ret' = [op |-> call.op, raised |-> "Rate limit exceeded"]
           ELSE IF validate_conversation_id(call.id) # "none"
           THEN /\ threads' = Goto(t, Returned(t))
                /\ ret' = [op |-> call.op, raised |-> "Invalid conversation ID"]
           ELSE /\ threads' = Goto(t, [call EXCEPT !.pc = "get"])
                /\ UNCHANGED ret
        /\ UNCHANGED <<apiVars, sent, budgetVars, lock, allocated, removed, now, conversations,
                       storeConfig, limiterConfig, generated, granted>>

\* service.get_or_create_conversation(IdA, "c1") is called
ThreadGetOrCreateConversation(t) ==
    /\ threads[t].pc = "idle"
    /\ EnterGetOrCreate(t, [threads[t] EXCEPT !.op = "get_or_create_conversation",
                                              !.id = IdA])

\* service.add_user_message(IdA, ThreadText(t), "c1") is called:
\* service.py 87-95, the limiter and the sanitizer
ThreadAddUserMessage(t) ==
    /\ threads[t].pc = "idle"
    /\ LET limit == is_allowed(requests, "c1", now,
                               max_requests, window_seconds, max_identifiers)
           sanitized == Sanitize(ThreadText(t))
       IN  /\ requests' = limit.requests
           /\ IF ~limit.result
              THEN /\ threads' = Goto(t, Returned(t))
                   /\ ret' = [op |-> "add_user_message", raised |-> "Rate limit exceeded"]
              ELSE IF sanitized.raised # "none"
              THEN /\ threads' = Goto(t, Returned(t))
                   /\ ret' = [op |-> "add_user_message", raised |-> "Invalid message"]
              ELSE /\ threads' = Goto(t, [threads[t] EXCEPT
                                            !.pc = "get_or_create",
                                            !.op = "add_user_message",
                                            !.id = IdA,
                                            !.content = sanitized.value])
                   /\ UNCHANGED ret
    /\ UNCHANGED <<apiVars, sent, budgetVars, lock, allocated, removed, now, conversations,
                   storeConfig, limiterConfig, generated, granted>>

\* service.py 98: add_user_message calls get_or_create_conversation
GetOrCreateInAddUserMessage(t) ==
    /\ threads[t].pc = "get_or_create"
    /\ EnterGetOrCreate(t, threads[t])

\* service.delete_conversation(IdA), service.list_conversations(),
\* service.cleanup_expired_conversations() or store.get_stats() is called:
\* each is one call of the store
ThreadCallStore(t) ==
    /\ threads[t].pc = "idle"
    /\ \E call \in {[pc |-> "delete", op |-> "delete_conversation"],
                    [pc |-> "list", op |-> "list_conversations"],
                    [pc |-> "cleanup", op |-> "cleanup_expired"],
                    [pc |-> "stats", op |-> "get_stats"]} :
          threads' = Goto(t, [threads[t] EXCEPT !.pc = call.pc, !.op = call.op, !.id = IdA])
    /\ UNCHANGED <<apiVars, sent, budgetVars, lock, allocated, removed, now, conversations,
                   storeConfig, requests, limiterConfig, generated, granted, ret>>

\* the store methods a thread is about to enter
StoreCalls == {"get", "create", "save", "delete", "stats", "list", "cleanup"}

\* with self._lock: the thread waits until the lock is free and takes it
Acquire(t) ==
    /\ threads[t].pc \in StoreCalls
    /\ ~threads[t].locked
    /\ CanAcquire(lock)
    /\ lock' = t
    /\ threads' = Goto(t, [threads[t] EXCEPT !.locked = TRUE])
    /\ UNCHANGED <<apiVars, sent, budgetVars, allocated, removed, now, conversations,
                   storeConfig, requests, limiterConfig, generated, granted, ret>>

\* a with block that leaves the lock taken
ReleaseSkipped(t) == lock

\* the lock once t leaves the with block
Release(t) == IF lock = t THEN Unlocked ELSE lock

\* store.get_conversation in get_or_create_conversation (service.py 54-67):
\* a conversation found is returned; otherwise Conversation.create_new
StoreGetConversation(t) ==
    /\ threads[t].pc = "get"
    /\ threads[t].locked
    /\ LET r == get_conversation(conversations, threads[t].id, now, conversation_ttl)
           found == r.result # None
           conversation == [obj |-> allocated + 1] @@ create_new(threads[t].id, now)
           left == [threads[t] EXCEPT !.locked = FALSE]
       IN  /\ conversations' = r.store
           /\ removed' = removed \cup (Objs(conversations) \ Objs(r.store))
           /\ lock' = Release(t)
           /\ allocated' = IF found THEN allocated ELSE allocated + 1
           /\ IF ~found
              THEN /\ threads' = Goto(t, [left EXCEPT !.pc = "create", !.conv = conversation])
                   /\ UNCHANGED ret
              ELSE IF threads[t].op = "get_or_create_conversation"
              THEN /\ threads' = Goto(t, Returned(t))
                   /\ ret' = [op |-> threads[t].op, raised |-> "none"]
              ELSE /\ threads' = Goto(t, [left EXCEPT !.pc = "append", !.conv = r.result])
                   /\ UNCHANGED ret
    /\ UNCHANGED <<apiVars, sent, budgetVars, now, storeConfig, requests, limiterConfig,
                   generated, granted>>

\* store.save_conversation(conversation), service.py 65 and 101: the object
\* is trimmed and stamped in place, stored, and the oldest entries evicted
StoreSaveConversation(t) ==
    /\ threads[t].pc \in {"create", "save"}
    /\ threads[t].locked
    /\ LET saved == Saved(threads[t].conv, now, max_messages_per_conversation)
           stored == SetItem(InStore(conversations, saved), saved)
           kept == save_conversation(InStore(conversations, saved), threads[t].conv, now,
                                     max_messages_per_conversation, max_conversations)
           left == [threads[t] EXCEPT !.locked = FALSE, !.conv = saved]
           last == threads[t].pc = "save"
                   \/ threads[t].op = "get_or_create_conversation"
       IN  /\ conversations' = kept
           /\ removed' = removed \cup (Objs(stored) \ Objs(kept))
           /\ lock' = Release(t)
           /\ IF ~last
              THEN /\ threads' = SeenBy(t, [left EXCEPT !.pc = "append"], saved)
                   /\ UNCHANGED ret
              ELSE /\ threads' = SeenBy(t,
                          [Returned(t) EXCEPT
                              !.added = IF threads[t].op = "add_user_message"
                                        THEN @ + 1 ELSE @],
                          saved)
                   /\ ret' = [op |-> threads[t].op, raised |-> "none"]
    /\ UNCHANGED <<apiVars, sent, budgetVars, allocated, now, storeConfig, requests,
                   limiterConfig, generated, granted>>

\* conversation.add_message("user", sanitized_message), service.py 100: the
\* object is mutated in place, outside the store's lock
AddMessage(t) ==
    /\ threads[t].pc = "append"
    /\ LET added == add_message(threads[t].conv, "user", threads[t].content, now) IN
       IF added.raised # "none"
       THEN /\ threads' = Goto(t, Returned(t))
            /\ ret' = [op |-> threads[t].op, raised |-> added.raised]
            /\ UNCHANGED conversations
       ELSE /\ threads' = SeenBy(t, [threads[t] EXCEPT !.pc = "save", !.conv = added.conv],
                                 added.conv)
            /\ conversations' = InStore(conversations, added.conv)
            /\ UNCHANGED ret
    /\ UNCHANGED <<apiVars, sent, budgetVars, lock, allocated, removed, now, storeConfig,
                   requests, limiterConfig, generated, granted>>

\* store.delete_conversation(conversation_id), service.py 150
StoreDeleteConversation(t) ==
    /\ threads[t].pc = "delete"
    /\ threads[t].locked
    /\ LET r == delete_conversation(conversations, threads[t].id) IN
        /\ conversations' = r.store
        /\ removed' = removed \cup (Objs(conversations) \ Objs(r.store))
        /\ ret' = [op |-> threads[t].op, raised |-> "none"]
    /\ lock' = Release(t)
    /\ threads' = Goto(t, Returned(t))
    /\ UNCHANGED <<apiVars, sent, budgetVars, allocated, now, storeConfig, requests,
                   limiterConfig, generated, granted>>

\* sum(len(conv.messages) for conv in self._conversations.values())
RECURSIVE TotalMessages(_)
TotalMessages(store) ==
    IF Len(store) = 0 THEN 0
    ELSE Len(Head(store).messages) + TotalMessages(Tail(store))

\* store.get_stats(): total_conversations, total_messages and the limits
get_stats(store) ==
    [total_conversations |-> Len(store),
     total_messages |-> TotalMessages(store),
     max_conversations |-> max_conversations,
     max_messages_per_conversation |-> max_messages_per_conversation]

StoreGetStats(t) ==
    /\ threads[t].pc = "stats"
    /\ threads[t].locked
    /\ ret' = [op |-> threads[t].op, raised |-> "none",
               result |-> get_stats(conversations)]
    /\ lock' = Release(t)
    /\ threads' = Goto(t, Returned(t))
    /\ UNCHANGED <<apiVars, sent, budgetVars, allocated, removed, now, conversations,
                   storeConfig, requests, limiterConfig, generated, granted>>

DefaultListLimit == 100

StoreListConversations(t) ==
    /\ threads[t].pc = "list"
    /\ threads[t].locked
    /\ ret' = [op |-> threads[t].op, raised |-> "none",
               result |-> list_conversations(conversations, DefaultListLimit)]
    /\ lock' = Release(t)
    /\ threads' = Goto(t, Returned(t))
    /\ UNCHANGED <<apiVars, sent, budgetVars, allocated, removed, now, conversations,
                   storeConfig, requests, limiterConfig, generated, granted>>

StoreCleanupExpired(t) ==
    /\ threads[t].pc = "cleanup"
    /\ threads[t].locked
    /\ LET r == cleanup_expired(conversations, now, conversation_ttl) IN
        /\ conversations' = r.store
        /\ removed' = removed \cup (Objs(conversations) \ Objs(r.store))
        /\ ret' = [op |-> threads[t].op, raised |-> "none"]
    /\ lock' = Release(t)
    /\ threads' = Goto(t, Returned(t))
    /\ UNCHANGED <<apiVars, sent, budgetVars, allocated, now, storeConfig, requests,
                   limiterConfig, generated, granted>>

InitThreads ==
    /\ sent = <<>>
    /\ InitBudgetIdle
    /\ InitThreadsIdle
    /\ now = 0
    /\ conversations = <<>>
    /\ max_conversations = 1
    /\ max_messages_per_conversation \in 1..MaxMsgCap
    /\ conversation_ttl = 1
    /\ generated = 0
    /\ requests = <<>>
    /\ max_requests = MaxThreadRequests
    /\ window_seconds = 1
    /\ max_identifiers = 1
    /\ granted = [c \in Clients |-> <<>>]
    /\ ret = [op |-> "init"]

ThreadStep(t) ==
    \/ ThreadGetOrCreateConversation(t)
    \/ ThreadAddUserMessage(t)
    \/ GetOrCreateInAddUserMessage(t)
    \/ ThreadCallStore(t)
    \/ Acquire(t)
    \/ StoreGetConversation(t)
    \/ StoreSaveConversation(t)
    \/ AddMessage(t)
    \/ StoreDeleteConversation(t)
    \/ StoreGetStats(t)
    \/ StoreListConversations(t)
    \/ StoreCleanupExpired(t)

NextThreads == \E t \in Threads : ThreadStep(t)

SpecThreads == InitThreads /\ [][NextThreads]_vars

(***************************************************************************)
(* SpecSanitize: one message, put together from a prefix, an opening tag,  *)
(* a body, a closing tag and a suffix, is handed to sanitize_message and   *)
(* to add_user_message.  `sent` holds the message the caller sends.        *)
(***************************************************************************)
\* a script block followed by text, as in test_sanitize_script_tags and
\* test_secure_conversation_service_integration
TextScriptAttack ==
    Str(<<"<", "s", "c", "r", "i", "p", "t", ">", "a", "l", "e", "r", "t", "(", "1", ")",
          "<", "/", "s", "c", "r", "i", "p", "t", ">", "i", "g", "n", "o", "r", "e">>)

SanitizerInputs ==
    LET alert == Str(<<"a", "l", "e", "r", "t", "(", "1", ")">>)
        bold == Str(<<"<", "b", ">">>)
        prefixes == {<<>>, Str(<<"j", "a", "v", "a">>), Str(<<"<">>), bold,
                     Str(<<"<", "s", "c", "r">>)}
        openTags == {<<>>, Str(<<"<", "s", "c", "r", "i", "p", "t", ">">>),
                     Str(<<"<", "S", "C", "R", "I", "P", "T", " ", "x", ">">>), bold}
        bodies == {<<>>, alert, alert \o Str(<<"\n">>) \o bold}
        closeTags == {<<>>, Str(<<"<", "/", "s", "c", "r", "i", "p", "t", ">">>),
                      Str(<<"<", "/", "S", "C", "R", "I", "P", "T", ">">>), Str(<<">">>)}
        suffixes == {<<>>, Str(<<"i", "g", "n", "o", "r", "e">>),
                     Str(<<"s", "c", "r", "i", "p", "t", ":", "x">>), Str(<<"<">>)}
    IN  {pre \o open \o body \o close \o post :
            pre \in prefixes, open \in openTags, body \in bodies,
            close \in closeTags, post \in suffixes}

InitSanitize ==
    /\ \E content \in SanitizerInputs : sent = <<[role |-> "user", message |-> content]>>
    /\ InitBudgetIdle
    /\ InitThreadsIdle
    /\ now = 0
    /\ conversations = <<>>
    /\ max_conversations = 1
    /\ max_messages_per_conversation = 2
    /\ conversation_ttl = 1
    /\ requests = <<>>
    /\ max_requests = 2
    /\ window_seconds = 1
    /\ max_identifiers = 1
    /\ granted = [c \in Clients |-> <<>>]
    /\ generated = 0
    /\ ret = [op |-> "init"]

\* MessageSanitizer.sanitize_message(content)
SanitizeMessage ==
    LET r == sanitize_message(sent[1].message) IN
    /\ ret' = [op |-> "sanitize_message", raised |-> r.raised, value |-> r.value]
    /\ UNCHANGED <<apiVars, sent, budgetVars, threadVars, now, conversations, storeConfig,
                   requests, limiterConfig, generated, granted>>

\* service.add_user_message(IdA, content, client)
SanitizedAddUserMessage ==
    \E client \in ServiceClients :
        LET r == add_user_message(World, IdA, sent[1].message, client, now) IN
        /\ Leaves(r.world)
        /\ ret' = [op |-> "add_user_message", raised |-> r.raised]
        /\ UNCHANGED <<apiVars, sent, budgetVars, threadVars, now, storeConfig, limiterConfig,
                       granted>>

\* sanitize_message applied to the text sanitize_message has just returned
SanitizeAgain ==
    /\ ret.op = "sanitize_message"
    /\ ret.raised = "none"
    /\ LET r == sanitize_message(ret.value) IN
       ret' = [op |-> "sanitize_again", raised |-> r.raised, value |-> r.value,
               once |-> ret.value]
    /\ UNCHANGED <<apiVars, sent, budgetVars, threadVars, now, conversations, storeConfig,
                   requests, limiterConfig, generated, granted>>

NextSanitize == SanitizeMessage \/ SanitizedAddUserMessage \/ SanitizeAgain

SpecSanitize == InitSanitize /\ [][NextSanitize]_vars

(***************************************************************************)
(* SpecIds: one value is handed to validate_conversation_id.  `sent` holds *)
(* the value the caller passes: a text, or something that is no text.      *)
(***************************************************************************)
IdAlphabet == {"A", "z", "7", "-", "_", "/", "\n"}

\* the texts of at most MaxIdChars characters, those around 100 characters,
\* and a value that is not a str (its `value` is not looked at)
IdInputs ==
    LET short(n) == {[i \in 1..n |-> Ch(f[i])] : f \in [1..n -> IdAlphabet]}
        long == {Fill(k) \o s : k \in {MaxIdLength - 1, MaxIdLength}, s \in short(0) \cup short(1)}
    IN  {[str |-> TRUE, value |-> s] : s \in long \cup UNION {short(n) : n \in 0..MaxIdChars}}
        \cup {[str |-> FALSE, value |-> <<>>]}

InitIds ==
    /\ \E input \in IdInputs : sent = <<input>>
    /\ InitBudgetIdle
    /\ InitThreadsIdle
    /\ now = 0
    /\ InitStoreIdle
    /\ InitLimiterIdle
    /\ ret = [op |-> "init"]

\* MessageSanitizer.validate_conversation_id(conversation_id): security.py
\* 82-85 refuses what is not a str, then the length and the pattern are checked
ValidateConversationId ==
    LET input == sent[1]
        raised == IF ~input.str THEN "Conversation ID must be string"
                  ELSE validate_conversation_id(input.value)
    IN  /\ ret' = [op |-> "validate_conversation_id", raised |-> raised,
                   value |-> IF raised = "none" THEN input.value ELSE <<>>]
        /\ UNCHANGED <<apiVars, sent, budgetVars, threadVars, now, conversations, storeConfig,
                       requests, limiterConfig, generated, granted>>

NextIds == ValidateConversationId

SpecIds == InitIds /\ [][NextIds]_vars

(***************************************************************************)
(* SpecMessages: a caller holds one Conversation, made by create_new, and  *)
(* calls add_message on it as time passes, as test_conversation_validation *)
(* does.  `conversations` holds that one object.                           *)
(***************************************************************************)
MessageRoles == {"user", "assistant", "system", ""}

\* contents passed: texts, and 123, which is no str (its `value` is not looked at)
MessageContents ==
    {[str |-> TRUE, value |-> s] :
        s \in {TextHi, <<>>, Str(<<" ", "\t", " ">>), Fill(MaxContentLength),
               Fill(MaxContentLength + 1)}}
    \cup {[str |-> FALSE, value |-> <<>>]}

InitMessages ==
    /\ sent = <<>>
    /\ InitBudgetIdle
    /\ InitThreadsIdle
    /\ now = 0
    /\ conversations = <<create_new(IdA, 0)>>
    /\ max_conversations = 1
    /\ max_messages_per_conversation = MaxInMsgs
    /\ conversation_ttl = 1
    /\ generated = 0
    /\ InitLimiterIdle
    /\ ret = [op |-> "init"]

\* conversation.add_message(role, content): models.py 107-110 refuses a
\* content that is not a str after the role is checked
ConversationAddMessage ==
    \E role \in MessageRoles, content \in MessageContents :
        LET conversation == conversations[1]
            r == IF role \in {"user", "assistant"} /\ ~content.str
                 THEN [raised |-> "Message content must be string", conv |-> conversation]
                 ELSE add_message(conversation, role, content.value, now)
        IN  /\ Len(conversation.messages) < MaxInMsgs
            /\ conversations' = <<r.conv>>
            /\ ret' = [op |-> "add_message", role |-> role, content |-> content,
                       raised |-> r.raised]
            /\ UNCHANGED <<apiVars, sent, budgetVars, threadVars, now, storeConfig, requests,
                           limiterConfig, generated, granted>>

NextMessages == Tick \/ ConversationAddMessage

SpecMessages == InitMessages /\ [][NextMessages]_vars

(***************************************************************************)
(* Claims about the store, checked under SpecStore and SpecTrim.           *)
(***************************************************************************)
Min(a, b) == IF a <= b THEN a ELSE b

Without(keys, id) == LET Other(k) == k # id IN SelectSeq(keys, Other)

IsSuffixOf(s, t) == Len(s) <= Len(t) /\ s = SubSeq(t, Len(t) - Len(s) + 1, Len(t))

\* C1: between calls the store holds at most max_conversations conversations,
\* and a save_conversation leaves min(max_conversations, count + 1) of them
\* when the id is new (count when it is not): saving max_conversations + k
\* distinct conversations leaves exactly max_conversations.
C1_BoundedStoreSize ==
    /\ [](Len(conversations) <= max_conversations)
    /\ [][ret'.op = "save_conversation" =>
            Len(conversations') =
                Min(max_conversations,
                    Len(conversations)
                      + (IF Contains(conversations, ret'.id) THEN 0 ELSE 1))]_vars

\* C1 witness: a save into a full store has evicted and left it full.
C1_Witness ==
    /\ ret.op = "save_conversation"
    /\ Len(ret.evicted) >= 1
    /\ Len(conversations) = max_conversations
    /\ max_conversations >= 2

\* C2: the store is ordered from least to most recently used.  A save and a
\* successful get put the conversation last and leave the others in their
\* order; a save evicts from the least recently used end only; no other call
\* reorders; list_conversations(limit) is that order reversed, cut to limit.
C2_LruOrder ==
    /\ [][ret'.op = "save_conversation" =>
            /\ conversations'[Len(conversations')].id = ret'.id
            /\ IsSuffixOf(Without(Keys(conversations'), ret'.id),
                          Without(Keys(conversations), ret'.id))
            /\ Keys(ret'.evicted) \o Without(Keys(conversations'), ret'.id)
                  = Without(Keys(conversations), ret'.id)]_vars
    /\ [][(ret'.op = "get_conversation" /\ ret'.result # None) =>
            /\ conversations'[Len(conversations')].id = ret'.id
            /\ Without(Keys(conversations'), ret'.id)
                  = Without(Keys(conversations), ret'.id)]_vars
    /\ [][(ret'.op = "get_conversation" /\ ret'.result = None) =>
            Keys(conversations') = Without(Keys(conversations), ret'.id)]_vars
    /\ [][ret'.op \in {"delete_conversation", "cleanup_expired", "list_conversations", "tick"} =>
            \A i, j \in 1..Len(conversations') :
                i < j => \E a, b \in 1..Len(conversations) :
                    /\ a < b
                    /\ conversations[a].id = conversations'[i].id
                    /\ conversations[b].id = conversations'[j].id]_vars
    /\ [][ret'.op = "list_conversations" =>
            /\ Len(ret'.result) = Min(ret'.limit, Len(conversations))
            /\ \A i \in 1..Len(ret'.result) :
                  ret'.result[i] = conversations[Len(conversations) + 1 - i].id]_vars

\* C2 witness: a save evicted a conversation that was saved later than one
\* that stays, which an earlier read had moved to the recent end.
C2_Witness ==
    /\ ret.op = "save_conversation"
    /\ Len(ret.evicted) = 1
    /\ Len(conversations) = 2
    /\ ret.evicted[1].last_updated > conversations[1].last_updated

GrantedInWindow(identifier) ==
    LET Inside(t) == now - t < window_seconds IN Len(SelectSeq(granted[identifier], Inside))

\* C5: for an identifier whose history was not evicted, is_allowed says yes
\* exactly while fewer than max_requests of its calls were granted within
\* the last window_seconds: the first max_requests calls of a window pass,
\* the next is refused, a call made once window_seconds have elapsed since
\* they were granted passes again, and with max_requests = 0 none passes.
C5_RateLimiterExactness ==
    [][ret'.op = "is_allowed" =>
        /\ ret'.result = (GrantedInWindow(ret'.id) < max_requests)
        /\ (max_requests = 0 => ~ret'.result)
        /\ ((\A i \in 1..Len(granted[ret'.id]) :
                now - granted[ret'.id][i] >= window_seconds) /\ max_requests >= 1
              => ret'.result)]_vars

\* C5 witness: an identifier that had used up its window is allowed again.
C5_Witness ==
    /\ ret.op = "is_allowed"
    /\ ret.result
    /\ max_requests = 2
    /\ Len(granted[ret.id]) = 3
    /\ granted[ret.id][1] = granted[ret.id][2]

(***************************************************************************)
(* Claims about the service, checked under Spec and SpecContext.           *)
(***************************************************************************)
\* text of length at most 100 made up of characters from [A-Za-z0-9_-]
WellFormedId(id) ==
    /\ Len(id) > 0
    /\ TextLen(id) <= MaxIdLength
    /\ \A i \in 1..Len(id) : id[i].c \in IdChars

Allows(client) ==
    is_allowed(requests, client, now, max_requests, window_seconds, max_identifiers).result

\* the conversations a store holds, each with its messages
Written(store) ==
    {[id |-> store[i].id, messages |-> store[i].messages] : i \in 1..Len(store)}

SavingOps == {"get_or_create_conversation", "add_user_message", "add_assistant_message"}

\* C4: get_conversation(id) returns the stored conversation exactly when id
\* is present and now - last_updated <= ttl; on a present id past its ttl it
\* removes the entry; an id that is not in the store comes back only by a
\* saving call; get_conversation_context and get_conversation_summary
\* return a conversation only when it is present and not expired.
C4_ExpiredNeverReturned ==
    /\ [][ret'.op = "get_conversation" =>
            /\ (ret'.result # None) <=> Fresh(conversations, ret'.id, now)
            /\ Fresh(conversations, ret'.id, now) =>
                  ret'.result = GetItem(conversations, ret'.id)
            /\ ~Fresh(conversations, ret'.id, now) =>
                  ~Contains(conversations', ret'.id)]_vars
    /\ [][\A i \in 1..Len(conversations') :
            ~Contains(conversations, conversations'[i].id) => ret'.op \in SavingOps]_vars
    /\ [][ret'.op = "get_conversation_context" /\ ret'.result # <<>> =>
            Fresh(conversations, ret'.id, now)]_vars
    /\ [][ret'.op = "get_conversation_summary" /\ ret'.found =>
            Fresh(conversations, ret'.id, now)]_vars

\* the generated conversation has expired and been removed, and a
\* get_conversation of its id has returned nothing
C4_Witness ==
    /\ ret.op = "get_conversation"
    /\ generated = 1
    /\ ret.id = generate_conversation_id(1)
    /\ ret.result = None
    /\ conversations = <<>>

\* C6: when the limiter allows the client, get_or_create_conversation
\* returns the stored conversation unchanged for a well-formed id that is
\* present and not expired, a new conversation with that id and no messages
\* for a well-formed id that is absent, and a new conversation with no
\* messages under an id not handed out before when no id is given; the
\* conversation returned is in the store the call leaves.
C6_GetOrCreate ==
    \A id \in ServiceIds, client \in ServiceClients :
        LET r == get_or_create_conversation(World, id, client, now) IN
        Allows(client) /\ CanName(id) /\ (id = NoId \/ WellFormedId(id)) =>
            /\ r.raised = "none"
            /\ Contains(r.world.store, r.result.id)
            /\ GetItem(r.world.store, r.result.id) = r.result
            /\ id # NoId /\ Fresh(conversations, id, now) =>
                  r.result = GetItem(conversations, id)
            /\ id # NoId /\ ~Contains(conversations, id) =>
                  r.result.id = id /\ r.result.messages = <<>>
            /\ id = NoId =>
                  /\ r.result.messages = <<>>
                  /\ WellFormedId(r.result.id)
                  /\ r.result.id \notin IssuedIds
                  /\ ~Contains(conversations, r.result.id)

\* get_or_create_conversation has returned a stored conversation that holds
\* messages
C6_Witness ==
    /\ ret.op = "get_or_create_conversation"
    /\ ret.raised = "none"
    /\ Len(conversations) = 1
    /\ Len(conversations[1].messages) = 2

\* C7: get_or_create_conversation raises and leaves the store as it was when
\* the limiter denies the client or the id is malformed (longer than 100 or
\* holding a character outside [A-Za-z0-9_-]).
C7_MalformedIdRaises ==
    \A id \in ServiceIds, client \in ServiceClients :
        LET r == get_or_create_conversation(World, id, client, now) IN
        CanName(id) /\ (~Allows(client) \/ (id # NoId /\ ~WellFormedId(id))) =>
            r.raised # "none" /\ r.world.store = conversations

\* C8: a call of add_user_message that raises leaves the store holding the
\* same conversations with the same messages.
C8_FailedUserMessageLeavesStore ==
    [][ret'.op = "add_user_message" /\ ret'.raised # "none" =>
          Written(conversations') = Written(conversations)]_vars

\* C9: add_assistant_message with no id or a well-formed one never raises:
\* for every text and every state of the limiter and the store it returns
\* the conversation, saved, with the assistant message last.
C9_AssistantNeverFails ==
    \A id \in ServiceIds, message \in AssistantTexts, client \in ServiceClients :
        LET r == add_assistant_message(World, id, message, client, now) IN
        CanName(id) /\ (id = NoId \/ WellFormedId(id)) =>
            /\ r.raised = "none"
            /\ Len(r.result.messages) > 0
            /\ r.result.messages[Len(r.result.messages)].role = "assistant"
            /\ Contains(r.world.store, r.result.id)

\* len(content) // 4 + 10 summed over the entries of a context
RECURSIVE ContextCost(_)
ContextCost(context) ==
    IF Len(context) = 0 THEN 0
    ELSE (TextLen(Head(context).content) \div 4) + 10 + ContextCost(Tail(context))

\* C10: get_conversation_context(id, max_tokens) returns the empty list
\* when the conversation is absent or expired; otherwise the entries it
\* returns cost at most max_tokens unless it returns exactly one, and it
\* returns at least one when the conversation holds a message.
C10_ContextWindow ==
    [][ret'.op = "get_conversation_context" =>
          IF ~Fresh(conversations, ret'.id, now) THEN ret'.result = <<>>
          ELSE /\ Len(ret'.result) # 1 => ContextCost(ret'.result) <= ret'.max_tokens
               /\ Len(GetItem(conversations, ret'.id).messages) > 0 =>
                     Len(ret'.result) >= 1]_vars

\* of a conversation of several messages one message is returned, and it
\* alone costs more than max_tokens
C10_Witness ==
    /\ ret.op = "get_conversation_context"
    /\ Len(ret.result) = 1
    /\ ContextCost(ret.result) > ret.max_tokens
    /\ Len(conversations) = 1
    /\ Len(conversations[1].messages) > 1

\* the role and content of each message, in order
Entries(messages) ==
    [i \in 1..Len(messages) |->
        [role |-> messages[i].role, content |-> messages[i].content]]

\* C11: the list get_conversation_context returns is the role and content of
\* the newest messages of the conversation, none skipped, oldest first; it
\* is the longest such suffix that costs at most max_tokens, or the newest
\* message alone when that message costs more.
C11_ContextIsNewestSuffix ==
    [][ret'.op = "get_conversation_context" /\ Fresh(conversations, ret'.id, now) =>
          LET messages == GetItem(conversations, ret'.id).messages
              n == Len(messages)
              k == Len(ret'.result)
          IN  /\ k <= n
              /\ ret'.result = Entries(SubSeq(messages, n - k + 1, n))
              /\ IF n = 0 THEN k = 0
                 ELSE IF message_tokens(messages[n]) > ret'.max_tokens THEN k = 1
                 ELSE /\ k >= 1
                      /\ ContextCost(ret'.result) <= ret'.max_tokens
                      /\ \/ k = n
                         \/ ContextCost(ret'.result) + message_tokens(messages[n - k])
                               > ret'.max_tokens]_vars

\* of three messages the two newest, of different lengths, are returned
C11_Witness ==
    /\ ret.op = "get_conversation_context"
    /\ Len(conversations) = 1
    /\ Len(conversations[1].messages) = 3
    /\ Len(ret.result) = 2
    /\ ret.result[1].content # ret.result[2].content

\* what a call leaves as message content: the sanitized text of a user
\* call, the text of an assistant call cut to MAX_MESSAGE_LENGTH
StoredContent(call) ==
    IF call.role = "user" THEN sanitize_message(call.message).value
    ELSE Truncated(call.message)

AsStored(calls) ==
    [i \in 1..Len(calls) |-> [role |-> calls[i].role, content |-> StoredContent(calls[i])]]

AsCalled(calls) ==
    [i \in 1..Len(calls) |-> [role |-> calls[i].role, content |-> calls[i].message]]

\* C12 as amended: after k calls of add_user_message and add_assistant_message
\* that returned on a new conversation, k <= max_messages_per_conversation,
\* their stored contents costing at most max_tokens, nothing expired,
\* get_conversation_context returns k entries with the roles of the calls in
\* call order and as contents the sanitized user texts and the truncated
\* assistant texts, and get_conversation_summary reports message_count = k.
C12_DialogueIsStored ==
    /\ [][/\ ret'.op = "get_conversation_context"
           /\ Fresh(conversations, IdA, now)
           /\ Len(sent) <= max_messages_per_conversation
           /\ ContextCost(AsStored(sent)) <= ret'.max_tokens
           => ret'.result = AsStored(sent)]_vars
    /\ [][/\ ret'.op = "get_conversation_summary"
           /\ Fresh(conversations, IdA, now)
           /\ Len(sent) <= max_messages_per_conversation
           => ret'.found /\ ret'.message_count = Len(sent)]_vars

\* a user text, an over-long assistant text and a user text that the
\* sanitizer rewrites have been added, and the context has been read
C12_Witness ==
    /\ ret.op = "get_conversation_context"
    /\ Len(ret.result) = 3
    /\ Len(sent) = 3
    /\ sent[1].message = TextHi
    /\ sent[2].message = TextTooLong
    /\ sent[3].message = TextQuote
    /\ ret.result = AsStored(sent)

\* C12 as stated: the contents of the entries are the texts of the calls.
C12_DialogueIsCalled ==
    [][/\ ret'.op = "get_conversation_context"
       /\ Fresh(conversations, IdA, now)
       /\ Len(sent) <= max_messages_per_conversation
       /\ ContextCost(AsStored(sent)) <= ret'.max_tokens
       => ret'.result = AsCalled(sent)]_vars

(***************************************************************************)
(* Claims about the LM-call budget, checked under SpecBudget.              *)
(***************************************************************************)
\* C13: in each request the calls that reach the underlying LM since the
\* last reset are at most the budget of the request.
C13_LlmInvokedWithinBudget ==
    \A request \in Requests : llm_invoked[request] <= lm_budget[request]

\* C14: a reset or an LM call made while serving one request leaves the
\* count and the budget of every other request as they were.
C14_BudgetPerRequest ==
    [][ret'.op \in {"reset_request_lm_budget", "lm.__call__", "lm"} =>
          \A other \in Requests \ {ret'.request} :
              /\ lm_calls'[other] = lm_calls[other]
              /\ lm_budget'[other] = lm_budget[other]]_vars

\* one request has used up its budget of 1 and been refused, the other has
\* been reset to a budget of 2 and has made one call
C14_Witness ==
    /\ lm_budget["r1"] = 1
    /\ lm_calls["r1"] = 2
    /\ lm_budget["r2"] = 2
    /\ lm_calls["r2"] = 1
    /\ ret.op = "lm.__call__"
    /\ ret.request = "r1"
    /\ ret.raised

(***************************************************************************)
(* Claims about concurrent callers, checked under SpecThreads.             *)
(***************************************************************************)
\* C15: once a conversation has been removed from the store (deleted,
\* evicted or expired) the store never holds it again under any
\* interleaving of the threads' calls: what the id names afterwards is a
\* distinct conversation that started with zero messages.
C15_RemovedNeverStoredAgain ==
    \A i \in 1..Len(conversations) : conversations[i].obj \notin removed

\* the messages stored under IdA that carry the text of thread t
StoredFrom(t) ==
    IF Contains(conversations, IdA)
    THEN {i \in 1..Len(GetItem(conversations, IdA).messages) :
            GetItem(conversations, IdA).messages[i].content = Sanitize(ThreadText(t)).value}
    ELSE {}

\* C16: when both threads have returned from one successful add_user_message
\* each for the same id, the cap is not reached and nothing was deleted or
\* expired, the stored conversation contains both messages.
C16_BothMessagesStored ==
    (/\ \A t \in Threads : threads[t].pc = "idle" /\ threads[t].added = 1
     /\ removed = {}
     /\ max_messages_per_conversation >= Cardinality(Threads))
    => \A t \in Threads : StoredFrom(t) # {}

\* a stored conversation whose messages the step changes
MessagesChange ==
    \E i \in 1..Len(conversations), j \in 1..Len(conversations') :
        /\ conversations[i].obj = conversations'[j].obj
        /\ conversations[i].messages # conversations'[j].messages

\* the step is the body of a store method, run by the thread holding the lock
StepUnderLock ==
    \E t \in Threads : lock = t /\ threads[t].locked /\ ~threads'[t].locked

\* C17: in every reachable state every stored conversation has at most
\* max_messages_per_conversation messages, and the messages of a stored
\* conversation change only in a step of the thread that holds the store's
\* lock.
C17_CapAndLockedMutation ==
    /\ [](\A i \in 1..Len(conversations) :
            Len(conversations[i].messages) <= max_messages_per_conversation)
    /\ [][MessagesChange => StepUnderLock]_vars

\* the map: which object each key names, in the map's order
MapOf(store) == [i \in 1..Len(store) |-> [id |-> store[i].id, obj |-> store[i].obj]]

\* C18: no two store operations overlap: at most one thread is inside a
\* store method, it is the holder of the single lock, the lock is held
\* from the method's entry until its body has run, and the map's keys,
\* objects and order change only in the body step of the holder, so the
\* map after concurrent operations is that of running them one at a time in
\* the order they took the lock.
C18_StoreOperationsSerialized ==
    /\ [](\A t \in Threads :
            threads[t].locked
            => /\ lock = t
               /\ threads[t].pc \in StoreCalls
               /\ \A u \in Threads : threads[u].locked => u = t)
    /\ [](lock # Unlocked => threads[lock].locked)
    /\ [][MapOf(conversations') # MapOf(conversations) => StepUnderLock]_vars
    /\ [][\A t \in Threads :
            (threads[t].locked /\ threads'[t].locked)
            => MapOf(conversations') = MapOf(conversations)]_vars

\* a thread is inside save_conversation, the store holding a conversation,
\* while the other thread waits to enter a store method
C18_Witness ==
    \E t, u \in Threads :
        /\ t # u
        /\ threads[t].locked
        /\ threads[t].pc = "save"
        /\ Len(conversations) > 0
        /\ threads[u].pc \in StoreCalls
        /\ ~threads[u].locked

(***************************************************************************)
(* Claims about the sanitizer, checked under SpecSanitize.                 *)
(***************************************************************************)
\* the literal (lower case) occurs in the text, whatever the case
Occurs(text, literal) == FirstLiteral(text, 1, literal) # 0

NoAngleBracket(text) == \A i \in 1..Len(text) : text[i].c \notin {"<", ">"}

TextAlertLiteral == <<"a", "l", "e", "r", "t", "(", "1", ")">>

\* the text holds a script block whose body holds alert(1): an opening
\* <script ...> tag, then alert(1) with no </script> before it, then </script>
AlertInScriptBlock(text) ==
    \E i \in 1..Len(text) :
        /\ MatchAt(text, i, ScriptOpen)
        /\ LET gt == FirstChar(text, i + Len(ScriptOpen), ">")
               alert == IF gt = 0 THEN 0 ELSE FirstLiteral(text, gt + 1, TextAlertLiteral)
               close == IF gt = 0 THEN 0 ELSE FirstLiteral(text, gt + 1, ScriptClose)
           IN  alert # 0 /\ close > alert

\* the contents of the messages the store holds
StoredContents ==
    UNION {{conversations[i].messages[k].content : k \in 1..Len(conversations[i].messages)} :
            i \in 1..Len(conversations)}

\* C19: the text sanitize_message returns has no '<' and no '>', and a
\* script block of the input is removed with its body (the alert(1) inside
\* a <script ...>...</script> block is not in the output, which it would be
\* were the tags stripped first); the content stored by
\* add_user_message(id, "<script>alert(1)</script>ignore") has no '<', no
\* '>' and no "script" in any case.
C19_ScriptBlocksRemoved ==
    /\ (ret.op = "sanitize_message" /\ ret.raised = "none")
       => /\ NoAngleBracket(ret.value)
          /\ AlertInScriptBlock(sent[1].message) => ~Occurs(ret.value, TextAlertLiteral)
    /\ \A content \in StoredContents :
          /\ NoAngleBracket(content)
          /\ AlertInScriptBlock(sent[1].message) => ~Occurs(content, TextAlertLiteral)
          /\ sent[1].message = TextScriptAttack
             => ~Occurs(content, <<"s", "c", "r", "i", "p", "t">>)

\* add_user_message(id, "<script>alert(1)</script>ignore") has returned and
\* the store holds the content "ignore"
C19_Witness ==
    /\ sent[1].message = TextScriptAttack
    /\ ret.op = "add_user_message"
    /\ ret.raised = "none"
    /\ StoredContents = {Str(<<"i", "g", "n", "o", "r", "e">>)}

\* C20: sanitize_message rejects every input that contains a dangerous URL
\* scheme, and no text it returns, and no content add_user_message stores,
\* contains one.
C20_NoDangerousScheme ==
    /\ ret.op = "sanitize_message"
       => /\ HasDangerousUrl(sent[1].message) => ret.raised # "none"
          /\ ret.raised = "none" => ~HasDangerousUrl(ret.value)
    /\ \A content \in StoredContents : ~HasDangerousUrl(content)

\* C21: sanitize_message applied to a text it returned accepts it,
\* reintroduces no tag and escapes no character again: the second pass
\* returns the text of the first.
C21_SecondPassChangesNothing ==
    ret.op = "sanitize_again"
    => /\ ret.raised = "none"
       /\ NoAngleBracket(ret.value)
       /\ ret.value = ret.once

(***************************************************************************)
(* Claims about validate_conversation_id, checked under SpecIds.           *)
(***************************************************************************)
\* C22: validate_conversation_id returns its input unchanged exactly when
\* the input is text of length at most 100 made up only of characters from
\* [A-Za-z0-9_-], and raises for every other input (no text, too long, a
\* foreign character anywhere, a trailing newline included).
C22_IdValidation ==
    ret.op = "validate_conversation_id"
    => /\ ret.raised = "none" <=> (sent[1].str /\ WellFormedId(sent[1].value))
       /\ ret.raised = "none" => ret.value = sent[1].value

(***************************************************************************)
(* Claims about Conversation.add_message, checked under SpecMessages.      *)
(***************************************************************************)
\* text that is non-empty after trimming and at most 100,000 characters long
AcceptableContent(content) ==
    /\ content.str
    /\ \E i \in 1..Len(content.value) : content.value[i].c \notin Whitespace
    /\ TextLen(content.value) <= 100000

\* C23: add_message appends exactly one message and sets last_updated to
\* the time of the call when the role is user or assistant and the content
\* is text, non-empty after trimming and at most 100,000 characters long;
\* otherwise it raises and leaves messages and last_updated as they were.
\* Every message of the conversation has the role user or assistant.
C23_AddMessageValidates ==
    /\ [][ret'.op = "add_message" =>
            IF ret'.role \in {"user", "assistant"} /\ AcceptableContent(ret'.content)
            THEN /\ ret'.raised = "none"
                 /\ conversations'[1].messages =
                        Append(conversations[1].messages,
                               [role |-> ret'.role, content |-> ret'.content.value,
                                timestamp |-> now])
                 /\ conversations'[1].last_updated = now
            ELSE /\ ret'.raised # "none"
                 /\ conversations' = conversations]_vars
    /\ [](\A i \in 1..Len(conversations) : \A k \in 1..Len(conversations[i].messages) :
            conversations[i].messages[k].role \in {"user", "assistant"})

\* a content of exactly 100,000 characters has been appended, after an
\* earlier message, at a later time than the conversation was created
C23_Witness ==
    /\ ret.op = "add_message"
    /\ ret.raised = "none"
    /\ Len(conversations[1].messages) >= 2
    /\ TextLen(conversations[1].messages[Len(conversations[1].messages)].content) = 100000
    /\ conversations[1].last_updated > conversations[1].created_at

(***************************************************************************)
(* More claims about the store, checked under SpecStore.                   *)
(***************************************************************************)
\* C24: delete_conversation(id) returns true exactly when id was in the
\* store and removes only that entry, the other conversations and their
\* order staying as they were; afterwards get_conversation(id) returns
\* nothing and a second delete_conversation(id) returns false.
C24_DeleteRemovesOne ==
    [][ret'.op = "delete_conversation" =>
        LET Other(c) == c.id # ret'.id IN
        /\ ret'.result = Contains(conversations, ret'.id)
        /\ conversations' = SelectSeq(conversations, Other)
        /\ get_conversation(conversations', ret'.id, now, conversation_ttl).result = None
        /\ ~delete_conversation(conversations', ret'.id).result]_vars

\* a delete has removed one conversation from a store that held two
C24_Witness ==
    /\ ret.op = "delete_conversation"
    /\ ret.result
    /\ Len(conversations) = 1
    /\ conversations[1].id # ret.id

\* C25: cleanup_expired removes exactly the conversations with
\* now - last_updated > ttl and returns their number; the others stay, with
\* their messages and in their order; run again at the same instant it
\* removes nothing and returns 0.
C25_CleanupRemovesExpired ==
    [][ret'.op = "cleanup_expired" =>
        LET Unexpired(c) == now - c.last_updated <= conversation_ttl
            again == cleanup_expired(conversations', now, conversation_ttl)
        IN  /\ conversations' = SelectSeq(conversations, Unexpired)
            /\ ret'.result = Len(conversations) - Len(conversations')
            /\ again.store = conversations'
            /\ again.result = 0]_vars

\* a cleanup has removed an expired conversation and kept one whose age is
\* exactly the ttl
C25_Witness ==
    /\ ret.op = "cleanup_expired"
    /\ ret.result = 1
    /\ Len(conversations) = 1
    /\ now - conversations[1].last_updated = conversation_ttl

(***************************************************************************)
(* More claims about the rate limiter, checked under SpecLimiter.          *)
(***************************************************************************)
\* is_allowed(identifier) would say yes, the limiter holding reqs
WouldAllow(reqs, identifier) ==
    is_allowed(reqs, identifier, now, max_requests, window_seconds, max_identifiers).result

\* the limiter after is_allowed(other)
AfterCall(other) ==
    is_allowed(requests, other, now, max_requests, window_seconds, max_identifiers)

\* C26 as stated: identifiers have separate limits.  A call of is_allowed
\* for another identifier never changes whether a call for A is allowed,
\* and A is never allowed more than max_requests times within one window.
C26_IdentifiersIndependent ==
    /\ \A a, b \in Clients :
          a # b => WouldAllow(AfterCall(b).requests, a) = WouldAllow(requests, a)
    /\ \A a \in Clients :
          LET Inside(t) == now - t < window_seconds
          IN  Len(SelectSeq(sent[a], Inside)) <= max_requests

\* C26 amended: the same for an identifier whose history is not evicted.
\* A call for another identifier that does not evict A leaves the answer
\* to A as it was, and of the calls granted to A since its history was
\* last evicted at most max_requests lie within one window.
C26_UnevictedIndependent ==
    /\ \A a, b \in Clients :
          (a # b /\ a \notin AfterCall(b).evicted)
          => WouldAllow(AfterCall(b).requests, a) = WouldAllow(requests, a)
    /\ \A a \in Clients : GrantedInWindow(a) <= max_requests

\* the other identifier was just granted a call and is tracked, while this
\* one has used up its window and stays refused
C26_Witness ==
    \E a \in Clients :
        /\ ret.op = "is_allowed"
        /\ ret.id # a
        /\ ret.result
        /\ max_requests >= 1
        /\ Len(requests) = 2
        /\ GrantedInWindow(a) = max_requests
        /\ ~WouldAllow(requests, a)

\* the answers of is_allowed to a sequence of calls made at time t
RECURSIVE Answers(_, _, _)
Answers(reqs, calls, t) ==
    IF Len(calls) = 0 THEN <<>>
    ELSE LET r == is_allowed(reqs, Head(calls), t,
                             max_requests, window_seconds, max_identifiers)
         IN  <<r.result>> \o Answers(r.requests, Tail(calls), t)

\* the identifiers of the calls that follow a cleanup: the clients and one
\* the limiter has not seen
Callers == Clients \cup {"c3"}
CallsAfterCleanup ==
    UNION {[1..n -> Callers] : n \in 1..3}

\* what cleanup_old_entries leaves: no empty history, no timestamp at or
\* before the start of the window, and of every identifier the timestamps
\* inside the window, in their order
CleanupLeavesRecent ==
    /\ \A i \in 1..Len(requests') : Len(requests'[i].times) > 0
    /\ \A i \in 1..Len(requests') : \A k \in 1..Len(requests'[i].times) :
          requests'[i].times[k] > now' - window_seconds
    /\ \A c \in Clients :
          History(requests', c) = Recent(History(requests, c), now' - window_seconds)

\* C27 as stated: after cleanup_old_entries no tracked identifier has an
\* empty history, no timestamp is older than the window, the timestamps
\* inside the window are kept, and the answers of the is_allowed calls that
\* follow are those the limiter would have given without the cleanup.
C27_CleanupChangesNoAnswer ==
    [][ret'.op = "cleanup_old_entries" =>
        /\ CleanupLeavesRecent
        /\ \A calls \in CallsAfterCleanup :
              Answers(requests', calls, now') = Answers(requests, calls, now')]_vars

\* C27 amended: the same, for the answer of the first is_allowed call that
\* follows the cleanup, whatever its identifier.
C27_CleanupKeepsNextAnswer ==
    [][ret'.op = "cleanup_old_entries" =>
        /\ CleanupLeavesRecent
        /\ \A c \in Callers :
              Answers(requests', <<c>>, now') = Answers(requests, <<c>>, now')]_vars

\* a cleanup has removed one identifier and dropped a timestamp of another
C27_Witness ==
    \E a, b \in Clients :
        /\ ret.op = "cleanup_old_entries"
        /\ Len(granted[a]) > 0
        /\ ~Tracked(requests, a)
        /\ Tracked(requests, b)
        /\ Len(History(requests, b)) < Len(granted[b])
        /\ max_requests >= 1

(***************************************************************************)
(* More claims about the service                                           *)
(***************************************************************************)
\* assistant texts at the limit, one and two characters over it, and one
\* with markup
TextAtLimit == Fill(MAX_MESSAGE_LENGTH)
TextOverByTwo == Fill(MAX_MESSAGE_LENGTH - 2) \o Str(<<"a", "b", "c", "d">>)
LongAssistantTexts == {TextOk, TextMarkup, TextAtLimit, TextTooLong, TextOverByTwo}

LastMessage(conversation) == conversation.messages[Len(conversation.messages)]

\* C28: an add_assistant_message call that returns has stored, as the last
\* message of the conversation, the text unchanged when it has at most
\* MAX_MESSAGE_LENGTH characters and otherwise its first
\* MAX_MESSAGE_LENGTH - 3 characters followed by "..."; no stored assistant
\* content is longer than MAX_MESSAGE_LENGTH.
C28_AssistantTextTruncated ==
    /\ \A message \in LongAssistantTexts, client \in ServiceClients :
          LET r == add_assistant_message(World, IdA, message, client, now)
              stored == LastMessage(GetItem(r.world.store, IdA))
          IN  r.raised = "none" =>
                /\ Contains(r.world.store, IdA)
                /\ stored.role = "assistant"
                /\ TextLen(message) <= MAX_MESSAGE_LENGTH => stored.content = message
                /\ TextLen(message) > MAX_MESSAGE_LENGTH =>
                      stored.content = TextPrefix(message, MAX_MESSAGE_LENGTH - 3)
                                          \o Str(<<".", ".", ".">>)
                /\ TextLen(stored.content) <= MAX_MESSAGE_LENGTH
    /\ \A i \in 1..Len(conversations) : \A k \in 1..Len(conversations[i].messages) :
          conversations[i].messages[k].role = "assistant"
              => TextLen(conversations[i].messages[k].content) <= MAX_MESSAGE_LENGTH

\* add_assistant_message has returned for a text one character over the
\* limit, which is stored with exactly MAX_MESSAGE_LENGTH characters
C28_Witness ==
    /\ ret.op = "add_assistant_message"
    /\ ret.raised = "none"
    /\ Len(sent) > 0
    /\ sent[Len(sent)].message = TextTooLong
    /\ Contains(conversations, IdA)
    /\ LastMessage(GetItem(conversations, IdA)).role = "assistant"
    /\ TextLen(LastMessage(GetItem(conversations, IdA)).content) = MAX_MESSAGE_LENGTH

(***************************************************************************)
(* SpecStamps: callers drive the service of Spec, over a store of one or   *)
(* two conversations, with one id of their own or none and one text per    *)
(* role, and also call the store: they save again a conversation the store *)
(* holds, get, delete and clean up.                                        *)
(***************************************************************************)
StampIds == {NoId, IdA}
StampStoredIds == {IdA} \cup IssuedIds

InitStamps ==
    /\ sent = <<>>
    /\ InitBudgetIdle
    /\ InitThreadsIdle
    /\ now = 0
    /\ conversations = <<>>
    /\ max_conversations \in {1, 2}
    /\ max_messages_per_conversation = 1
    /\ conversation_ttl = 1
    /\ requests = <<>>
    /\ max_requests = 2
    /\ window_seconds = 1
    /\ max_identifiers = 1
    /\ granted = [c \in Clients |-> <<>>]
    /\ generated = 0
    /\ ret = [op |-> "init"]

\* store.save_conversation(conversation), conversation being one the store holds
StoreSaveStored ==
    \E id \in StampStoredIds :
        /\ Contains(conversations, id)
        /\ conversations' = save_conversation(conversations, GetItem(conversations, id), now,
                                max_messages_per_conversation, max_conversations)
        /\ ret' = [op |-> "save_conversation", id |-> id,
                   n |-> Len(GetItem(conversations, id).messages), evicted |-> <<>>]
        /\ UNCHANGED <<apiVars, sent, budgetVars, threadVars, now, storeConfig, requests, limiterConfig, generated, granted>>

\* service.get_or_create_conversation(id, client)
StampsGetOrCreate ==
    \E conversation_id \in StampIds, client \in ServiceClients :
        LET r == get_or_create_conversation(World, conversation_id, client, now) IN
        /\ CanName(conversation_id)
        /\ Leaves(r.world)
        /\ ret' = [op |-> "get_or_create_conversation", raised |-> r.raised]
        /\ UNCHANGED <<apiVars, sent, budgetVars, threadVars, now, storeConfig, limiterConfig, granted>>

\* service.add_user_message(id, "hi", client) and
\* service.add_assistant_message(id, "ok", client)
StampsAddMessage ==
    \E conversation_id \in StampIds, role \in {"user", "assistant"}, client \in ServiceClients :
        LET r == IF role = "user"
                 THEN add_user_message(World, conversation_id, TextHi, client, now)
                 ELSE add_assistant_message(World, conversation_id, TextOk, client, now)
        IN
        /\ CanName(conversation_id)
        /\ Leaves(r.world)
        /\ ret' = [op |-> IF role = "user" THEN "add_user_message" ELSE "add_assistant_message",
                   raised |-> r.raised]
        /\ UNCHANGED <<apiVars, sent, budgetVars, threadVars, now, storeConfig, limiterConfig, granted>>

NextStamps ==
    \/ Tick
    \/ StampsGetOrCreate
    \/ StampsAddMessage
    \/ StoreGet(StampStoredIds)
    \/ StoreSaveStored
    \/ StoreDelete(StampStoredIds)
    \/ StoreCleanup

SpecStamps == InitStamps /\ [][NextStamps]_vars

(***************************************************************************)
(* Claims about the timestamps of a conversation                           *)
(***************************************************************************)
CreatingCalls == {"get_or_create_conversation", "add_user_message", "add_assistant_message"}

\* an expired conversation was dropped by the service and a new one created
\* under its id
CreatedAgain(before, after) ==
    /\ _is_expired(before, now, conversation_ttl)
    /\ ret'.op \in CreatingCalls
    /\ after.created_at = now'
    /\ after.last_updated = now'

\* C29: a conversation that is stored before and after an operation keeps
\* its created_at and its last_updated does not decrease; a message append
\* that returns and a save leave last_updated at the time of the call; and
\* created_at <= last_updated for every stored conversation.
C29_StampsKept ==
    [][/\ \A i \in 1..Len(conversations), j \in 1..Len(conversations') :
             conversations[i].id = conversations'[j].id =>
                \/ CreatedAgain(conversations[i], conversations'[j])
                \/ /\ conversations'[j].created_at = conversations[i].created_at
                   /\ conversations'[j].last_updated >= conversations[i].last_updated
       /\ (\/ ret'.op \in {"add_user_message", "add_assistant_message"} /\ ret'.raised = "none"
           \/ ret'.op = "save_conversation")
             => /\ Len(conversations') > 0
                /\ conversations'[Len(conversations')].last_updated = now'
       /\ \A j \in 1..Len(conversations') :
             conversations'[j].created_at <= conversations'[j].last_updated]_vars

\* a message was appended to a conversation after the time of its creation,
\* while another conversation is stored
C29_Witness ==
    /\ ret.op = "add_user_message"
    /\ ret.raised = "none"
    /\ Len(conversations) = 2
    /\ conversations[2].created_at < conversations[2].last_updated
    /\ conversations[2].last_updated = now

(***************************************************************************)
(* The FastAPI endpoint query_agent (api/routers/agent_fastapi.py) behind  *)
(* lm_budget_middleware (api/main_fastapi.py).  The texts are the str(e)   *)
(* of the ConversationValidationError raised at each place.                *)
(***************************************************************************)
\* agent_fastapi.py 86-90
GlobalLimitText ==
    Str(<<"W", "e", "'", "v", "e", " ", "r", "e", "a", "c", "h", "e", "d",
          " ", "o", "u", "r", " ", "d", "a", "i", "l", "y", " ", "q", "u",
          "e", "r", "y", " ", "l", "i", "m", "i", "t", " ", "t", "o", " ",
          "k", "e", "e", "p", " ", "c", "o", "s", "t", "s", " ", "m", "a",
          "n", "a", "g", "e", "a", "b", "l", "e", ".", " ", "P", "l", "e",
          "a", "s", "e", " ", "t", "r", "y", " ", "a", "g", "a", "i", "n",
          " ", "t", "o", "m", "o", "r", "r", "o", "w", " ", "(", "r", "e",
          "s", "e", "t", "s", " ", "a", "t", " ", "m", "i", "d", "n", "i",
          "g", "h", "t", " ", "U", "T", "C", ")", ".", " ", "T", "h", "a",
          "n", "k", "s", " ", "f", "o", "r", " ", "u", "n", "d", "e", "r",
          "s", "t", "a", "n", "d", "i", "n", "g", "!">>)

\* agent_fastapi.py 94-97
ClientLimitText ==
    Str(<<"Y", "o", "u", "'", "r", "e", " ", "s", "e", "n", "d", "i", "n",
          "g", " ", "r", "e", "q", "u", "e", "s", "t", "s", " ", "t", "o",
          "o", " ", "q", "u", "i", "c", "k", "l", "y", ".", " ", "P", "l",
          "e", "a", "s", "e", " ", "w", "a", "i", "t", " ", "a", " ", "b",
          "i", "t", " ", "a", "n", "d", " ", "t", "r", "y", " ", "a", "g",
          "a", "i", "n", " ", "(", "p", "e", "r", "-", "c", "l", "i", "e",
          "n", "t", " ", "r", "a", "t", "e", " ", "l", "i", "m", "i", "t",
          ")", ".">>)

\* service.py 44-46
CreateLimitText ==
    Str(<<"R", "a", "t", "e", " ", "l", "i", "m", "i", "t", " ", "e", "x",
          "c", "e", "e", "d", "e", "d", ".", " ", "P", "l", "e", "a", "s",
          "e", " ", "w", "a", "i", "t", " ", "b", "e", "f", "o", "r", "e",
          " ", "c", "r", "e", "a", "t", "i", "n", "g", " ", "m", "o", "r",
          "e", " ", "c", "o", "n", "v", "e", "r", "s", "a", "t", "i", "o",
          "n", "s", ".">>)

\* service.py 87-89
SendLimitText ==
    Str(<<"R", "a", "t", "e", " ", "l", "i", "m", "i", "t", " ", "e", "x",
          "c", "e", "e", "d", "e", "d", ".", " ", "P", "l", "e", "a", "s",
          "e", " ", "w", "a", "i", "t", " ", "b", "e", "f", "o", "r", "e",
          " ", "s", "e", "n", "d", "i", "n", "g", " ", "m", "o", "r", "e",
          " ", "m", "e", "s", "s", "a", "g", "e", "s", ".">>)

\* lm_budget.py 39-41
BudgetText ==
    Str(<<"R", "a", "t", "e", " ", "l", "i", "m", "i", "t", " ", "e", "x",
          "c", "e", "e", "d", "e", "d", ":", " ", "p", "e", "r", "-", "r",
          "e", "q", "u", "e", "s", "t", " ", "L", "L", "M", " ", "c", "a",
          "l", "l", " ", "b", "u", "d", "g", "e", "t", " ", "r", "e", "a",
          "c", "h", "e", "d", ".">>)

\* service.py 55-57
InvalidIdPrefix ==
    Str(<<"I", "n", "v", "a", "l", "i", "d", " ", "c", "o", "n", "v", "e",
          "r", "s", "a", "t", "i", "o", "n", " ", "I", "D", ":", " ">>)

\* security.py 89
IdTooLongText ==
    Str(<<"C", "o", "n", "v", "e", "r", "s", "a", "t", "i", "o", "n", " ",
          "I", "D", " ", "t", "o", "o", " ", "l", "o", "n", "g">>)

\* security.py 93
IdCharactersText ==
    Str(<<"C", "o", "n", "v", "e", "r", "s", "a", "t", "i", "o", "n", " ",
          "I", "D", " ", "c", "o", "n", "t", "a", "i", "n", "s", " ", "i",
          "n", "v", "a", "l", "i", "d", " ", "c", "h", "a", "r", "a", "c",
          "t", "e", "r", "s">>)

\* service.py 95
InvalidMessagePrefix ==
    Str(<<"I", "n", "v", "a", "l", "i", "d", " ", "m", "e", "s", "s", "a",
          "g", "e", ":", " ">>)

\* security.py 45-48
TooLongPrefix ==
    Str(<<"M", "e", "s", "s", "a", "g", "e", " ", "t", "o", "o", " ", "l",
          "o", "n", "g", ":", " ">>)

\* security.py 47
CharactersSuffix ==
    Str(<<" ", "c", "h", "a", "r", "a", "c", "t", "e", "r", "s">>)

\* security.py 55
DangerousUrlText ==
    Str(<<"M", "e", "s", "s", "a", "g", "e", " ", "c", "o", "n", "t", "a",
          "i", "n", "s", " ", "p", "o", "t", "e", "n", "t", "i", "a", "l",
          "l", "y", " ", "d", "a", "n", "g", "e", "r", "o", "u", "s", " ",
          "U", "R", "L", "s">>)

\* models.py 113
EmptyContentText ==
    Str(<<"M", "e", "s", "s", "a", "g", "e", " ", "c", "o", "n", "t", "e",
          "n", "t", " ", "c", "a", "n", "n", "o", "t", " ", "b", "e", " ",
          "e", "m", "p", "t", "y">>)


GreaterThanText == Str(<<" ", ">", " ">>)
RateLimitLiteral == <<"r", "a", "t", "e", " ", "l", "i", "m", "i", "t">>

AllDigits == <<"0", "1", "2", "3", "4", "5", "6", "7", "8", "9">>

\* str(n) of a natural number
RECURSIVE Decimal(_)
Decimal(n) ==
    IF n < 10 THEN <<Ch(AllDigits[n + 1])>>
    ELSE Decimal(n \div 10) \o <<Ch(AllDigits[(n % 10) + 1])>>

\* str(e) of the ValueError sanitize_message raises for the content
SanitizerErrorText(content) ==
    IF Sanitize(content).raised = "Message too long"
    THEN TooLongPrefix \o Decimal(TextLen(content)) \o GreaterThanText
            \o Decimal(MAX_MESSAGE_LENGTH) \o CharactersSuffix
    ELSE DangerousUrlText

\* str(e) of the ConversationValidationError a service method raises, named
\* in the model by `raised`; limited says that the method's own is_allowed
\* check refused
ServiceErrorText(raised, limited, conversation_id, content) ==
    CASE raised = "Rate limit exceeded" ->
            IF limited THEN SendLimitText ELSE CreateLimitText
      [] raised = "Invalid conversation ID" ->
            InvalidIdPrefix \o (IF validate_conversation_id(conversation_id)
                                      = "Conversation ID too long"
                                THEN IdTooLongText ELSE IdCharactersText)
      [] raised = "Invalid message" -> InvalidMessagePrefix \o SanitizerErrorText(content)
      [] OTHER -> EmptyContentText

\* RateLimiter(max_requests=..., window_seconds=...): max_identifiers
DefaultMaxIdentifiers == 10000
\* the clock counts hours: window_seconds=3600 and window_seconds=86400
HourWindow == 1
DayWindow == 24

\* limiter.is_allowed(identifier) of one of the endpoint's limiters
LimiterCall(limiter, identifier, t) ==
    LET r == is_allowed(limiter.requests, identifier, t, limiter.max_requests,
                        limiter.window_seconds, DefaultMaxIdentifiers)
    IN  [limiter |-> [limiter EXCEPT !.requests = r.requests], result |-> r.result]

\* k calls lm.__call__(...) in the context of a request, up to the first
\* that raises: the new _lm_calls, whether one raised, and the calls that
\* reached the LM
RECURSIVE WrappedCalls(_, _, _, _)
WrappedCalls(calls, budgets, request, k) ==
    IF k = 0 THEN [lm_calls |-> calls, raised |-> FALSE, invoked |-> 0]
    ELSE LET r == increment_and_check_budget(calls, budgets, request) IN
         IF r.raised THEN [lm_calls |-> r.lm_calls, raised |-> TRUE, invoked |-> 0]
         ELSE LET rest == WrappedCalls(r.lm_calls, budgets, request, k - 1)
              IN  [rest EXCEPT !.invoked = @ + 1]

\* agent_fastapi.py 179-183: 429 if "rate limit" in str(e).lower() else 400
StatusOf(error) == IF Occurs(error, RateLimitLiteral) THEN 429 ELSE 400

\* the texts raised without a part taken from the request, and their
\* status, computed once
FixedErrorTexts ==
    {GlobalLimitText, ClientLimitText, CreateLimitText, SendLimitText, BudgetText,
     EmptyContentText, InvalidIdPrefix \o IdTooLongText, InvalidIdPrefix \o IdCharactersText,
     InvalidMessagePrefix \o DangerousUrlText}
FixedErrorStatus == [error \in FixedErrorTexts |-> StatusOf(error)]

\* agent_fastapi.py 177-188: the status of the response to a
\* ConversationValidationError
ErrorStatus(error) ==
    IF error \in FixedErrorTexts THEN FixedErrorStatus[error] ELSE StatusOf(error)

\* what query_agent makes of a request: the limiters and the service's
\* world it leaves, the _lm_calls of the request's context, the response's
\* status and error, and the place that rejected the request
Outcome(global, client, world, calls, invoked, status, error, rejected) ==
    [global |-> global, client |-> client, world |-> world, lm_calls |-> calls,
     invoked |-> invoked, status_code |-> status, error |-> error, rejected |-> rejected]

Rejected(global, client, world, calls, error, rejected) ==
    Outcome(global, client, world, calls, 0, ErrorStatus(error), error, rejected)

\* whether a service error is its rate-limit error or another validation error
ServiceRejection(raised) ==
    IF raised = "Rate limit exceeded" THEN "service rate limit" ELSE "validation"

\* query_agent (agent_fastapi.py 72-188) from what its calls returned, in
\* the order it makes them, up to the first that refuses or raises: global
\* and client are the limiters' answers, opened, asked, context and answered
\* the service's, lm the agent's LM calls, calls the request's _lm_calls as
\* lm_budget_middleware left it, limited whether add_user_message's own
\* is_allowed check refused
query_agent(calls, global, client, opened, limited, asked, context, lm, answered, conversation_id, id, question, answer) ==
    IF ~global.result
    THEN Rejected(global.limiter, per_client_rate_limiter, World, calls,
                  GlobalLimitText, "global rate limit")
    ELSE IF ~client.result
    THEN Rejected(global.limiter, client.limiter, World, calls,
                  ClientLimitText, "client rate limit")
    ELSE IF opened.raised # "none"
    THEN Rejected(global.limiter, client.limiter, opened.world, calls,
                  ServiceErrorText(opened.raised, FALSE, conversation_id, question),
                  ServiceRejection(opened.raised))
    ELSE IF asked.raised # "none"
    THEN Rejected(global.limiter, client.limiter, asked.world, calls,
                  ServiceErrorText(asked.raised, limited, id, question),
                  ServiceRejection(asked.raised))
    ELSE IF lm.raised
    THEN Rejected(global.limiter, client.limiter, context.world, lm.lm_calls,
                  BudgetText, "lm budget")
    ELSE IF answered.raised # "none"
    THEN Outcome(global.limiter, client.limiter, answered.world, lm.lm_calls, lm.invoked,
                 ErrorStatus(ServiceErrorText(answered.raised, FALSE, id, answer)),
                 ServiceErrorText(answered.raised, FALSE, id, answer),
                 ServiceRejection(answered.raised))
    ELSE Outcome(global.limiter, client.limiter, answered.world, lm.lm_calls, lm.invoked,
                 200, <<>>, "none")

(***************************************************************************)
(* SpecEndpoint: clients post to /agent/query, one request at a time, as   *)
(* the hours pass.  The service is the one get_conversation_service        *)
(* builds, with a NoopRateLimiter, or one built with a RateLimiter of its  *)
(* own; with a limit of four or more that lets a whole request through.    *)
(***************************************************************************)
EndpointIds == {NoId, IdA, IdSlash}
TextBlank == Str(<<" ">>)
EndpointQuestions == {TextHi, TextUrl, TextTooLong, TextBlank}

InitEndpoint ==
    /\ sent = <<>>
    /\ InitThreadsIdle
    /\ now = 0
    /\ conversations = <<>>
    /\ max_conversations = 1
    /\ max_messages_per_conversation = 2
    /\ conversation_ttl = 1
    /\ requests = <<>>
    /\ \E built \in {<<"NoopRateLimiter", 1>>, <<"RateLimiter", 1>>, <<"RateLimiter", 4>>} :
          /\ service_rate_limiter = built[1]
          /\ max_requests = built[2]
    /\ window_seconds = HourWindow
    /\ max_identifiers = 1
    /\ granted = [c \in Clients |-> <<>>]
    /\ generated = 0
    /\ lm_calls = [r \in Requests |-> 0]
    /\ \E budget \in 1..MaxBudget : lm_budget = [r \in Requests |-> budget]
    /\ llm_invoked = [r \in Requests |-> 0]
    /\ \E limit \in 1..MaxReq :
          global_rate_limiter = [requests |-> <<>>, max_requests |-> limit,
                                 window_seconds |-> DayWindow]
    /\ \E limit \in 1..MaxReq :
          per_client_rate_limiter = [requests |-> <<>>, max_requests |-> limit,
                                     window_seconds |-> HourWindow]
    /\ ret = [op |-> "init"]

\* one request: lm_budget_middleware, then query_agent.  lm_tries is the
\* number of LM calls the agent makes for the question, wrapped whether they
\* run the wrapper wrap_lm_for_budget installed
QueryAgent ==
    \E conversation_id \in EndpointIds, question \in EndpointQuestions,
       client_ip \in ServiceClients, lm_tries \in 1..(MaxBudget + 1), wrapped \in BOOLEAN :
    \E calls \in {reset_request_lm_budget(lm_calls, lm_budget, "r1",
                                          [value |-> lm_budget["r1"]]).lm_calls} :
    \E global \in {LimiterCall(global_rate_limiter, "global", now)} :
    \E client \in {LimiterCall(per_client_rate_limiter, client_ip, now)} :
    \E opened \in {get_or_create_conversation(World, conversation_id, client_ip, now)} :
    \E id \in {IF opened.raised = "none" THEN opened.result.id ELSE conversation_id} :
    \E limited \in {~ServiceIsAllowed(opened.world.requests, client_ip, now).result} :
    \E asked \in {add_user_message(opened.world, id, question, client_ip, now)} :
    \E context \in {get_conversation_context(asked.world, id, DefaultMaxTokens, now)} :
    \E lm \in {IF wrapped THEN WrappedCalls(calls, lm_budget, "r1", lm_tries)
               ELSE [lm_calls |-> calls, raised |-> FALSE, invoked |-> lm_tries]} :
    \E answered \in {add_assistant_message(context.world, id, TextOk, client_ip, now)} :
    \E r \in {query_agent(calls, global, client, opened, limited, asked, context, lm,
                          answered, conversation_id, id, question, TextOk)} :
        /\ CanName(conversation_id)
        /\ global_rate_limiter' = r.global
        /\ per_client_rate_limiter' = r.client
        /\ Leaves(r.world)
        /\ lm_calls' = [lm_calls EXCEPT !["r1"] = r.lm_calls["r1"]]
        /\ llm_invoked' = [llm_invoked EXCEPT !["r1"] = r.invoked]
        /\ ret' = [op |-> "query_agent", status_code |-> r.status_code,
                   rejected |-> r.rejected]
        /\ UNCHANGED <<service_rate_limiter, sent, lm_budget, threadVars, now, storeConfig,
                       limiterConfig, granted>>

NextEndpoint == Tick \/ QueryAgent

SpecEndpoint == InitEndpoint /\ [][NextEndpoint]_vars

(***************************************************************************)
(* Claims about the endpoint                                               *)
(***************************************************************************)
RateLimitRejections ==
    {"global rate limit", "client rate limit", "service rate limit", "lm budget"}

\* C30: query_agent answers 429 to every rate-limit rejection (by the
\* global daily limiter, the per-client limiter, the service's limiter or
\* the LM-call budget) and 400 to every other validation error.
C30_RateLimitIs429 ==
    ret.op = "query_agent" =>
        /\ ret.rejected \in RateLimitRejections => ret.status_code = 429
        /\ ret.rejected = "validation" => ret.status_code = 400

(***************************************************************************)
(* Claims about refused calls, eviction and the window's edge, checked     *)
(* under SpecLimiter.                                                      *)
(***************************************************************************)
\* the times from now on at which is_allowed(identifier) would say yes, the
\* limiter holding reqs and no other call coming first
AllowedAt(reqs, identifier) ==
    {t \in now..(MaxTime + MaxWindow) :
        is_allowed(reqs, identifier, t, max_requests, window_seconds, max_identifiers).result}

\* C31: a refused is_allowed call leaves _requests as it was (no timestamp
\* recorded, no identifier added or evicted), so the times at which the
\* identifier is allowed again are the same after the refusal as before it.
C31_DeniedChangesNothing ==
    [][(ret'.op = "is_allowed" /\ ~ret'.result) =>
        /\ requests' = requests
        /\ granted' = granted
        /\ AllowedAt(requests', ret'.id) = AllowedAt(requests, ret'.id)]_vars

\* C31 witness: a tracked identifier that has used up its window was refused
\* while the limiter tracks as many identifiers as it may
C31_Witness ==
    /\ ret.op = "is_allowed"
    /\ ~ret.result
    /\ max_requests >= 1
    /\ Tracked(requests, ret.id)
    /\ Len(requests) = max_identifiers
    /\ Len(History(requests, ret.id)) = max_requests
    /\ AllowedAt(requests, ret.id) # {}

(***************************************************************************)
(* The limiter called for more identifiers than it may track: three        *)
(* callers, so that an untracked identifier can arrive while two are       *)
(* tracked and the choice of the one to evict is a real one.               *)
(***************************************************************************)
EvictCallers == {"c1", "c2", "c3"}

InitEvict ==
    /\ sent = [c \in Clients |-> <<>>]
    /\ InitBudgetIdle
    /\ InitThreadsIdle
    /\ now = 0
    /\ requests = <<>>
    /\ max_requests \in 0..MaxReq
    /\ window_seconds \in 1..MaxWindow
    /\ max_identifiers \in 1..MaxIdents
    /\ granted = [c \in Clients |-> <<>>]
    /\ ret = [op |-> "init"]
    /\ InitStoreIdle

EvictIsAllowed ==
    \E identifier \in EvictCallers :
      \E r \in {is_allowed(requests, identifier, now,
                           max_requests, window_seconds, max_identifiers)} :
        /\ requests' = r.requests
        /\ ret' = [op |-> "is_allowed", id |-> identifier, result |-> r.result,
                    before |-> requests]
        /\ UNCHANGED <<apiVars, sent, budgetVars, threadVars, now, conversations, storeConfig, limiterConfig, generated, granted>>

NextEvict == Tick \/ EvictIsAllowed \/ LimiterCleanup

SpecEvict == InitEvict /\ [][NextEvict]_vars

(***************************************************************************)
(* Claims about eviction, checked under SpecEvict.                         *)
(***************************************************************************)
TrackedIds(reqs) == {reqs[i].identifier : i \in 1..Len(reqs)}

\* the call is for an identifier the limiter does not track, the limiter
\* tracks as many as it may, and the call is allowed
AllowedAtCapacity ==
    /\ ret'.op = "is_allowed"
    /\ ret'.result
    /\ ~Tracked(requests, ret'.id)
    /\ Len(requests) >= max_identifiers

\* C32: the limiter never tracks more than max_identifiers identifiers,
\* each of them once and with a non-empty history; an allowed call for an
\* untracked identifier at capacity removes exactly one tracked identifier,
\* one whose oldest recorded timestamp is smallest, and tracks the caller;
\* no other call of is_allowed removes an identifier.
C32_BoundedIdentifiers ==
    /\ [](/\ Len(requests) <= max_identifiers
          /\ Cardinality(TrackedIds(requests)) = Len(requests)
          /\ \A i \in 1..Len(requests) : Len(requests[i].times) > 0)
    /\ [][AllowedAtCapacity =>
            \E e \in TrackedIds(requests) :
                /\ TrackedIds(requests') = (TrackedIds(requests) \ {e}) \cup {ret'.id}
                /\ \A o \in TrackedIds(requests) :
                      SeqMin(History(requests, e)) <= SeqMin(History(requests, o))]_vars
    /\ [][(ret'.op = "is_allowed" /\ ~AllowedAtCapacity) =>
            TrackedIds(requests) \subseteq TrackedIds(requests')]_vars

\* C32 witness: of two tracked identifiers the one recorded second had the
\* older timestamp and was evicted for a third; the other is still tracked
C32_Witness ==
    /\ ret.op = "is_allowed"
    /\ ret.result
    /\ max_identifiers = 2
    /\ Len(ret.before) = 2
    /\ ~Tracked(ret.before, ret.id)
    /\ SeqMin(ret.before[2].times) < SeqMin(ret.before[1].times)
    /\ TrackedIds(requests) = {ret.before[1].identifier, ret.id}

(***************************************************************************)
(* Claims about the window's edge, checked under SpecLimiter.              *)
(***************************************************************************)
\* the timestamps that are not older than window_start
NotOlder(times, window_start) ==
    LET Kept(req_time) == req_time >= window_start IN SelectSeq(times, Kept)

\* C33: is_allowed discards only the timestamps older than window_start =
\* now - window_seconds.  A timestamp equal to window_start still counts
\* toward max_requests, and is still recorded after an allowed call.
C33_EdgeTimestampCounts ==
    [][ret'.op = "is_allowed" =>
        LET counted == NotOlder(History(requests, ret'.id), now - window_seconds) IN
        /\ ret'.result = (Len(counted) < max_requests)
        /\ ret'.result => History(requests', ret'.id) = Append(counted, now)]_vars

(***************************************************************************)
(* SpecRace: two threads inside RateLimiter.is_allowed at once.  The       *)
(* method takes no lock, so a thread can be preempted between any two of   *)
(* its accesses to self._requests.  A step of a thread is one such access  *)
(* together with the local computation that follows it: reading the clock, *)
(* _requests.get and the limit check, the capacity test, min() over the    *)
(* keys, del, and the final store.  `granted` holds, per identifier, the   *)
(* start times of the calls that returned True within the last window.     *)
(* The window is one tick long and the clock advances between calls, not   *)
(* inside one: the interleavings examined are those of calls that overlap  *)
(* within one instant.                                                     *)
(***************************************************************************)
RaceIdle ==
    [pc |-> "idle", identifier |-> "none", current_time |-> 0,
     recent_requests |-> <<>>, oldest_identifier |-> "none"]

InitRace ==
    /\ sent = [c \in Clients |-> <<>>]
    /\ InitBudgetIdle
    /\ lock = Unlocked
    /\ threads = [t \in Threads |-> RaceIdle]
    /\ allocated = 0
    /\ removed = {}
    /\ now = 0
    /\ requests = <<>>
    /\ max_requests \in 1..MaxReq
    /\ window_seconds = 1
    /\ max_identifiers \in 1..MaxIdents
    /\ granted = [c \in Clients |-> <<>>]
    /\ ret = [op |-> "init"]
    /\ InitStoreIdle

RaceFrame ==
    UNCHANGED <<apiVars, sent, budgetVars, lock, allocated, removed, now, conversations,
                storeConfig, limiterConfig, generated>>

\* security.py 146-159: the clock is read, the history is read and filtered
\* into a local list, and a full window returns False
RaceGet(t) ==
    /\ threads[t].pc = "idle"
    /\ \E identifier \in Clients :
        LET recent_requests == Recent(History(requests, identifier), now - window_seconds)
        IN  IF Len(recent_requests) >= max_requests
            THEN /\ threads' = Goto(t, RaceIdle)
                 /\ ret' = [op |-> "is_allowed", id |-> identifier,
                            result |-> FALSE, raised |-> "none"]
            ELSE /\ threads' = Goto(t, [RaceIdle EXCEPT
                                          !.pc = "capacity",
                                          !.identifier = identifier,
                                          !.current_time = now,
                                          !.recent_requests = recent_requests])
                 /\ ret' = [op |-> "get", id |-> identifier]
    /\ UNCHANGED <<requests, granted>>
    /\ RaceFrame

\* security.py 162-165: a new identifier at capacity
RaceCapacity(t) ==
    /\ threads[t].pc = "capacity"
    /\ threads' = Goto(t, [threads[t] EXCEPT !.pc =
            IF ~Tracked(requests, threads[t].identifier) /\ Len(requests) >= max_identifiers
            THEN "min" ELSE "store"])
    /\ UNCHANGED <<requests, granted, ret>>
    /\ RaceFrame

\* security.py 168-171: min() over the keys; ValueError if none is left
RaceMin(t) ==
    /\ threads[t].pc = "min"
    /\ IF Len(requests) = 0
       THEN /\ threads' = Goto(t, RaceIdle)
            /\ ret' = [op |-> "is_allowed", id |-> threads[t].identifier,
                       result |-> FALSE, raised |-> "ValueError"]
       ELSE /\ threads' = Goto(t, [threads[t] EXCEPT
                                     !.pc = "del",
                                     !.oldest_identifier = OldestIdentifier(requests)])
            /\ UNCHANGED ret
    /\ UNCHANGED <<requests, granted>>
    /\ RaceFrame

\* security.py 172: del self._requests[oldest_identifier]; KeyError if the
\* key is gone
RaceDel(t) ==
    /\ threads[t].pc = "del"
    /\ IF Tracked(requests, threads[t].oldest_identifier)
       THEN /\ requests' = Untrack(requests, threads[t].oldest_identifier)
            /\ threads' = Goto(t, [threads[t] EXCEPT !.pc = "store"])
            /\ UNCHANGED ret
       ELSE /\ threads' = Goto(t, RaceIdle)
            /\ ret' = [op |-> "is_allowed", id |-> threads[t].identifier,
                       result |-> FALSE, raised |-> "KeyError"]
            /\ UNCHANGED requests
    /\ UNCHANGED granted
    /\ RaceFrame

\* the dict with the local list, which the thread built from the history
\* it read earlier, set over the history the dict holds by now
StoreMerged(reqs, identifier, recent_requests, current_time) ==
    Record(reqs, identifier, Append(History(reqs, identifier), current_time))

\* security.py 175-176: recent_requests.append(current_time);
\* self._requests[identifier] = recent_requests
StoreRecent(reqs, identifier, recent_requests, current_time) ==
    Record(reqs, identifier, Append(recent_requests, current_time))

\* security.py 175-177: the store and return True
RaceStore(t) ==
    /\ threads[t].pc = "store"
    /\ LET mine == threads[t]
           Inside(s) == now - s < window_seconds
       IN  /\ requests' = StoreRecent(requests, mine.identifier,
                                      mine.recent_requests, mine.current_time)
           /\ granted' = [granted EXCEPT ![mine.identifier] =
                            PySuffix(SelectSeq(Append(@, mine.current_time), Inside),
                                     MaxReq + 1)]
           /\ ret' = [op |-> "is_allowed", id |-> mine.identifier,
                      result |-> TRUE, raised |-> "none"]
           /\ threads' = Goto(t, RaceIdle)
    /\ RaceFrame

RaceTick ==
    /\ now < MaxTime
    /\ \A t \in Threads : threads[t].pc = "idle"
    /\ now' = now + 1
    /\ granted' = [c \in Clients |->
                      LET Inside(s) == now' - s < window_seconds
                      IN  SelectSeq(granted[c], Inside)]
    /\ ret' = [op |-> "tick"]
    /\ UNCHANGED <<apiVars, sent, budgetVars, threadVars, conversations, storeConfig,
                   requests, limiterConfig, generated>>

RaceStep(t) ==
    \/ RaceGet(t)
    \/ RaceCapacity(t)
    \/ RaceMin(t)
    \/ RaceDel(t)
    \/ RaceStore(t)

NextRace == RaceTick \/ \E t \in Threads : RaceStep(t)

SpecRace == InitRace /\ [][NextRace]_vars

(***************************************************************************)
(* Claims about concurrent is_allowed calls, checked under SpecRace.       *)
(***************************************************************************)
\* thread t stores its list and returns True in this step
Stores(t) == threads[t].pc = "store" /\ threads'[t].pc = "idle"

\* C34: is_allowed reads the history, checks the limit and writes the
\* history back without holding a lock: no step of it takes the store's or
\* any other lock, and what it writes is the list it filtered from its own
\* earlier read plus its own timestamp, whatever another thread has stored
\* for the identifier in between.  (The lost update this allows is the
\* witness.)
C34_UnlockedReadCheckWrite ==
    /\ [](lock = Unlocked)
    /\ [][\A t \in Threads :
            Stores(t) =>
                /\ History(requests', threads[t].identifier)
                     = Append(threads[t].recent_requests, threads[t].current_time)
                /\ Len(threads[t].recent_requests) < max_requests
                /\ ret'.result]_vars

\* C34 witness: two calls for one identifier have both returned True within
\* one window of a limiter that allows one, no identifier was ever evicted,
\* and the identifier's history holds a single timestamp
C34_Witness ==
    /\ ret.op = "is_allowed"
    /\ ret.result
    /\ max_requests = 1
    /\ max_identifiers = 2
    /\ Len(granted[ret.id]) = 2
    /\ granted[ret.id][1] = granted[ret.id][2]
    /\ Len(History(requests, ret.id)) = 1
    /\ \A t \in Threads : threads[t].pc = "idle"

(***************************************************************************)
(* Claims about the limiters of the FastAPI composition, checked under     *)
(* SpecEndpoint.                                                           *)
(***************************************************************************)
\* the call recorded one timestamp, now, for the identifier and touched no
\* other history
RecordedOnce(before, after, identifier) ==
    /\ History(after.requests, identifier)
         = Append(Recent(History(before.requests, identifier), now - before.window_seconds),
                  now)
    /\ \A other \in ServiceClients \cup {"global"} :
          other # identifier =>
              History(after.requests, other) = History(before.requests, other)

\* the request got past both of the endpoint's limiters
Admitted == ret'.op = "query_agent" /\ ret'.rejected \notin {"global rate limit", "client rate limit"}

\* C35: the service built with a NoopRateLimiter is never refused by its
\* limiter and the limiter keeps no state.  query_agent asks the global
\* limiter first: a request the global limiter refuses changes neither
\* limiter, one the per-client limiter refuses has recorded one timestamp
\* in the global limiter only, and a request admitted by both records
\* exactly one timestamp in each, whatever service calls follow.
C35_NoopAndLimiterOrder ==
    /\ [](service_rate_limiter = "NoopRateLimiter" =>
            /\ requests = <<>>
            /\ ret.op = "query_agent" => ret.rejected # "service rate limit")
    /\ [][(service_rate_limiter = "NoopRateLimiter" /\ ret'.op = "query_agent") =>
            /\ ret'.rejected = "global rate limit" =>
                  /\ global_rate_limiter' = global_rate_limiter
                  /\ per_client_rate_limiter' = per_client_rate_limiter
            /\ ret'.rejected = "client rate limit" =>
                  /\ RecordedOnce(global_rate_limiter, global_rate_limiter', "global")
                  /\ per_client_rate_limiter' = per_client_rate_limiter
            /\ Admitted =>
                  /\ RecordedOnce(global_rate_limiter, global_rate_limiter', "global")
                  /\ \E client_ip \in ServiceClients :
                        RecordedOnce(per_client_rate_limiter, per_client_rate_limiter',
                                     client_ip)]_vars

\* C35 witness: with the NoopRateLimiter a second request of the hour was
\* answered, all three service calls made, and each of the endpoint's
\* limiters holds two timestamps
C35_Witness ==
    /\ service_rate_limiter = "NoopRateLimiter"
    /\ ret.op = "query_agent"
    /\ ret.status_code = 200
    /\ Len(History(global_rate_limiter.requests, "global")) = 2
    /\ \E client_ip \in ServiceClients :
          Len(History(per_client_rate_limiter.requests, client_ip)) = 2
    /\ Len(conversations) = 1
    /\ Len(conversations[1].messages) = 2

(***************************************************************************)
(* SpecSlots: a client calls a ConversationService built with a            *)
(* RateLimiter of its own, which tracks one identifier or as many as the   *)
(* class allows by default, while a second client opens conversations.     *)
(* `sent` holds, per client, the times of its add_user_message calls that  *)
(* returned within the last window, and `granted` those since the client's *)
(* history was last evicted.                                               *)
(***************************************************************************)
SlotIds == {IdA}
SlotTexts == {TextHi, TextUrl}
MaxSlots == MaxReq + 1

InitSlots ==
    /\ InitBudgetIdle
    /\ InitThreadsIdle
    /\ now = 0
    /\ conversations = <<>>
    /\ max_conversations = 1
    /\ max_messages_per_conversation = 1
    /\ conversation_ttl = 1
    /\ requests = <<>>
    /\ max_requests \in {MaxSlots - 1, MaxSlots}
    /\ window_seconds \in 1..MaxWindow
    /\ max_identifiers \in {1, DefaultMaxIdentifiers}
    /\ sent = [c \in Clients |-> <<>>]
    /\ granted = [c \in Clients |-> <<>>]
    /\ generated = 0
    /\ ret = [op |-> "init"]

\* the call of a service method by a client, r what the method made of it
SlotsCall(op, client, r) ==
    LET Inside(t) == now - t < window_seconds
        returned == op = "add_user_message" /\ r.raised = "none"
        evicted == TrackedIds(requests) \ TrackedIds(r.world.requests)
        Counted(times) == IF returned
                          THEN PySuffix(Append(SelectSeq(times, Inside), now), MaxSlots)
                          ELSE times
    IN  /\ Leaves(r.world)
        /\ sent' = [sent EXCEPT ![client] = Counted(@)]
        /\ granted' = [c \in Clients |->
                          IF c = client THEN Counted(IF c \in evicted THEN <<>> ELSE granted[c])
                          ELSE IF c \in evicted THEN <<>> ELSE granted[c]]
        /\ ret' = [op |-> op, client |-> client, raised |-> r.raised]
        /\ UNCHANGED <<apiVars, budgetVars, threadVars, now, storeConfig, limiterConfig>>

SlotsGetOrCreate ==
    \E conversation_id \in SlotIds, client \in Clients :
        SlotsCall("get_or_create_conversation", client,
                  get_or_create_conversation(World, conversation_id, client, now))

SlotsAddUserMessage ==
    \E conversation_id \in SlotIds, message \in SlotTexts, client \in ServiceClients :
        SlotsCall("add_user_message", client,
                  add_user_message(World, conversation_id, message, client, now))

SlotsAddAssistantMessage ==
    \E conversation_id \in SlotIds, client \in ServiceClients :
        SlotsCall("add_assistant_message", client,
                  add_assistant_message(World, conversation_id, TextOk, client, now))

\* the clock advances; the histories keep what is inside the window
SlotsTick ==
    /\ now < MaxTime
    /\ now' = now + 1
    /\ LET Inside(t) == now' - t < window_seconds
       IN  /\ sent' = [c \in Clients |-> SelectSeq(sent[c], Inside)]
           /\ granted' = [c \in Clients |-> SelectSeq(granted[c], Inside)]
    /\ ret' = [op |-> "tick"]
    /\ UNCHANGED <<apiVars, budgetVars, threadVars, conversations, storeConfig, requests,
                   limiterConfig, generated>>

NextSlots == SlotsTick \/ SlotsGetOrCreate \/ SlotsAddUserMessage \/ SlotsAddAssistantMessage

SpecSlots == InitSlots /\ [][NextSlots]_vars

(***************************************************************************)
(* Claims about the slots a service call uses, checked under SpecSlots.    *)
(***************************************************************************)
\* the client's timestamps inside the window before the call
RecentBefore == Recent(History(requests, ret'.client), now - window_seconds)

\* what each call records for its client: two timestamps for an
\* add_user_message that returns, one for the other two methods, and for an
\* add_user_message that raises the rate-limit error nothing, or, when one
\* slot was left, one
SlotsRecorded ==
    /\ (ret'.op = "add_user_message" /\ ret'.raised = "none") =>
          History(requests', ret'.client) = RecentBefore \o <<now, now>>
    /\ (ret'.op \in {"get_or_create_conversation", "add_assistant_message"}
          /\ ret'.raised = "none") =>
          History(requests', ret'.client) = Append(RecentBefore, now)
    /\ (ret'.op = "add_user_message" /\ ret'.raised = "Rate limit exceeded") =>
          IF Len(RecentBefore) >= max_requests
          THEN requests' = requests
          ELSE /\ Len(RecentBefore) = max_requests - 1
               /\ History(requests', ret'.client) = Append(RecentBefore, now)

\* the add_user_message calls counted in `times` that lie within the window
InWindow(times) ==
    LET Inside(t) == now - t < window_seconds IN Len(SelectSeq(times, Inside))

\* C36 as stated: the calls record as above, and a limiter with
\* max_requests = N admits at most floor(N/2) add_user_message calls of a
\* client per window.
C36_TwoSlotsPerUserMessage ==
    /\ [][ret'.op # "tick" => SlotsRecorded]_vars
    /\ [](\A c \in Clients : InWindow(sent[c]) <= max_requests \div 2)

\* C36 amended: the same, the bound being for a client whose history the
\* limiter has not evicted in between.
C36_TwoSlotsWhileTracked ==
    /\ [][ret'.op # "tick" => SlotsRecorded]_vars
    /\ [](\A c \in Clients : InWindow(granted[c]) <= max_requests \div 2)

\* C36 witness: with max_requests = 3 a client's add_user_message returned
\* and its next one, within the window, passed the first check and was
\* refused by the second: three timestamps for one message
C36_Witness ==
    /\ ret.op = "add_user_message"
    /\ ret.raised = "Rate limit exceeded"
    /\ max_requests = 3
    /\ max_identifiers = DefaultMaxIdentifiers
    /\ Len(History(requests, ret.client)) = 3
    /\ InWindow(granted[ret.client]) = 1
    /\ Len(Recent(History(requests, ret.client), now - window_seconds)) = 3

(***************************************************************************)
(* SpecReads: the service and the store of SpecStamps, read through        *)
(* get_conversation, get_conversation_context, get_conversation_summary    *)
(* and get_or_create_conversation, with a caller that saves a conversation *)
(* of its own, so that a full store evicts.                                *)
(***************************************************************************)
NextReads ==
    \/ Tick
    \/ StampsGetOrCreate
    \/ StampsAddMessage
    \/ StoreGet(StampStoredIds)
    \/ GetConversationContext(StampStoredIds, {DefaultMaxTokens})
    \/ GetConversationSummary
    \/ StoreSave({IdB}, {1})

SpecReads == InitStamps /\ [][NextReads]_vars

(***************************************************************************)
(* Claims about reads, checked under SpecReads.                            *)
(***************************************************************************)
\* the step read the stored, unexpired conversation id: one of the three
\* reading methods named it, or get_or_create_conversation returned it
ReadOf(id) ==
    /\ Fresh(conversations, id, now)
    /\ \/ /\ ret'.op \in {"get_conversation", "get_conversation_context",
                         "get_conversation_summary"}
          /\ ret'.id = id
       \/ /\ ret'.op = "get_or_create_conversation"
          /\ ret'.raised = "none"
          /\ Len(conversations') > 0
          /\ conversations'[Len(conversations')].id = id

\* C37: a read of a stored, unexpired conversation changes only its place
\* in the LRU order: it becomes the most recently used, every conversation
\* keeps its messages, created_at and last_updated, and so the time at
\* which each expires is what it was.
C37_ReadMovesOnly ==
    [][\A id \in StampStoredIds :
         ReadOf(id) =>
            /\ conversations' = MoveToEnd(conversations, id)
            /\ GetItem(conversations', id) = GetItem(conversations, id)
            /\ \A t \in 0..(MaxTime + MaxTTL + 1) :
                  _is_expired(GetItem(conversations', id), t, conversation_ttl)
                     = _is_expired(GetItem(conversations, id), t, conversation_ttl)]_vars

\* C37 witness: a conversation read in the last instant of its life is the
\* most recently used of two, and still the one updated longer ago
C37_Witness ==
    /\ ret.op \in {"get_conversation", "get_conversation_context",
                   "get_conversation_summary"}
    /\ Len(conversations) = 2
    /\ conversations[2].id = ret.id
    /\ conversations[2].last_updated < conversations[1].last_updated
    /\ now - conversations[2].last_updated = conversation_ttl

(***************************************************************************)
(* SpecSweep: the caller of SpecStore, who also asks the store for its     *)
(* statistics.                                                             *)
(***************************************************************************)
StoreStats ==
    /\ ret' = [op |-> "get_stats", result |-> get_stats(conversations)]
    /\ UNCHANGED <<apiVars, sent, budgetVars, threadVars, now, conversations, storeConfig, requests, limiterConfig, generated, granted>>

NextSweep == NextStore \/ StoreStats

SpecSweep == InitStore /\ [][NextSweep]_vars

(***************************************************************************)
(* Claims about expiry, checked under SpecSweep.                           *)
(***************************************************************************)
Expired(c) == _is_expired(c, now, conversation_ttl)

\* the ids of the stored conversations whose ttl has elapsed
ExpiredIds(store) == {store[i].id : i \in {k \in 1..Len(store) : Expired(store[k])}}

Elements(s) == {s[i] : i \in 1..Len(s)}

\* C38: only get_conversation and cleanup_expired remove a conversation
\* for being expired.  The passing of time, list_conversations and
\* get_stats remove nothing, delete_conversation removes the one named and
\* save_conversation those least recently used; an expired conversation
\* that was not read or swept is listed, is counted by get_stats, and
\* counts toward max_conversations, so that a save of a new id into a full
\* store evicts the least recently used conversation, expired or not.
C38_ExpiryOnlyOnReadAndSweep ==
    [][/\ ret'.op \in {"tick", "list_conversations", "get_stats"} =>
             conversations' = conversations
       /\ ret'.op = "delete_conversation" =>
             conversations' = DelItem(conversations, ret'.id)
       /\ ret'.op = "list_conversations" =>
             /\ Len(ret'.result) = Min(ret'.limit, Len(conversations))
             /\ ret'.limit >= Len(conversations) =>
                   ExpiredIds(conversations) \subseteq Elements(ret'.result)
       /\ ret'.op = "get_stats" =>
             ret'.result.total_conversations = Len(conversations)
       /\ (ret'.op = "save_conversation" /\ ~Contains(conversations, ret'.id)) =>
             IF Len(conversations) = max_conversations
             THEN /\ Keys(conversations') = Append(Tail(Keys(conversations)), ret'.id)
                  /\ Keys(ret'.evicted) = <<Head(conversations).id>>
             ELSE Keys(conversations') = Append(Keys(conversations), ret'.id)]_vars

\* C38 witness: a save into a full store has evicted a conversation that
\* had not expired and left one that has
C38_Witness ==
    /\ ret.op = "save_conversation"
    /\ Len(ret.evicted) = 1
    /\ ~Expired(ret.evicted[1])
    /\ \E i \in 1..Len(conversations) : Expired(conversations[i])

(***************************************************************************)
(* SpecLock: two threads call the methods of one InMemoryConversationStore.*)
(* A method is entered by taking self._lock; its body runs to the release  *)
(* in one step, except save_conversation, whose body is the store          *)
(* (storage.py 84-96) and then one step per turn of the eviction loop      *)
(* (storage.py 99-102).  `over` is the number of conversations in excess   *)
(* of max_conversations when the loop is reached, `evictions` the turns    *)
(* taken.  A thread that holds the lock is scheduled again (weak           *)
(* fairness of the steps inside the with block); nothing is assumed of     *)
(* the order in which waiting threads obtain the lock.  The calls all fall *)
(* within one instant of the clock.                                        *)
(***************************************************************************)
LockIdle ==
    [pc |-> "idle", locked |-> FALSE, id |-> <<>>, conv |-> None, over |-> 0, evictions |-> 0]

LockedBodies == {"get", "delete", "list", "cleanup", "stats"}

InitLock ==
    /\ sent = <<>>
    /\ InitBudgetIdle
    /\ lock = Unlocked
    /\ threads = [t \in Threads |-> LockIdle]
    /\ allocated = 0
    /\ removed = {}
    /\ now = 0
    /\ conversations = <<>>
    /\ max_conversations \in 0..MaxCap
    /\ max_messages_per_conversation = 1
    /\ conversation_ttl = 1
    /\ generated = 0
    /\ ret = [op |-> "init"]
    /\ InitLimiterIdle

LockFrame ==
    UNCHANGED <<apiVars, sent, budgetVars, allocated, removed, now, storeConfig, requests,
                limiterConfig, generated, granted>>

\* a thread calls a method of the store
LockCall(t) ==
    /\ threads[t].pc = "idle"
    /\ \E op \in LockedBodies \cup {"save"} :
       \E id \in IF op \in {"get", "delete", "save"} THEN StoreIds ELSE {<<>>} :
          threads' = Goto(t, [LockIdle EXCEPT
                                !.pc = op, !.id = id,
                                !.conv = IF op = "save" THEN Built(id, 1, now) ELSE None])
    /\ UNCHANGED <<lock, conversations, ret>>
    /\ LockFrame

\* the body of get_conversation, delete_conversation, list_conversations,
\* cleanup_expired or get_stats, and the release
LockBody(t) ==
    /\ threads[t].pc \in LockedBodies
    /\ threads[t].locked
    /\ LET op == threads[t].pc
           id == threads[t].id
           r == CASE op = "get" -> get_conversation(conversations, id, now, conversation_ttl)
                  [] op = "delete" -> delete_conversation(conversations, id)
                  [] op = "cleanup" -> cleanup_expired(conversations, now, conversation_ttl)
                  [] op = "list" ->
                        [store |-> conversations,
                         result |-> list_conversations(conversations, DefaultListLimit)]
                  [] OTHER -> [store |-> conversations, result |-> get_stats(conversations)]
       IN  /\ conversations' = r.store
           /\ ret' = [op |-> op]
    /\ lock' = Release(t)
    /\ threads' = Goto(t, LockIdle)
    /\ LockFrame

\* storage.py 84-96: trim, stamp, store and move_to_end
LockSavePut(t) ==
    /\ threads[t].pc = "save"
    /\ threads[t].locked
    /\ LET saved == Saved(threads[t].conv, now, max_messages_per_conversation)
           stored == MoveToEnd(SetItem(conversations, saved), saved.id)
       IN  /\ conversations' = stored
           /\ threads' = Goto(t, [threads[t] EXCEPT
                                    !.pc = "evict",
                                    !.conv = saved,
                                    !.over = IF Len(stored) > max_conversations
                                             THEN Len(stored) - max_conversations ELSE 0])
    /\ UNCHANGED <<lock, ret>>
    /\ LockFrame

\* storage.py 99-102: one turn of the loop, or its end and the release
LockSaveEvict(t) ==
    /\ threads[t].pc = "evict"
    /\ threads[t].locked
    /\ IF Len(conversations) > max_conversations
       THEN /\ conversations' = Tail(conversations)
            /\ threads' = Goto(t, [threads[t] EXCEPT !.evictions = @ + 1])
            /\ UNCHANGED <<lock, ret>>
       ELSE /\ lock' = Release(t)
            /\ threads' = Goto(t, LockIdle)
            /\ ret' = [op |-> "save_conversation",
                       over |-> threads[t].over, evictions |-> threads[t].evictions]
            /\ UNCHANGED conversations
    /\ LockFrame

InWith(t) == LockBody(t) \/ LockSavePut(t) \/ LockSaveEvict(t)

LockStep(t) == LockCall(t) \/ Acquire(t) \/ InWith(t)

NextLock == \E t \in Threads : LockStep(t)

SpecLock == InitLock /\ [][NextLock]_vars /\ \A t \in Threads : WF_vars(InWith(t))

(***************************************************************************)
(* Claims about the lock and the eviction loop, checked under SpecLock.    *)
(***************************************************************************)
\* thread t waits to enter a with block
Waits(t) == threads[t].pc \in StoreCalls /\ ~threads[t].locked

\* C39: no thread takes the lock while it holds it, the holder is always
\* inside a body it can go on with, and every thread that holds the lock
\* releases it (so a waiting thread always finds the lock free again);
\* the eviction loop of save_conversation takes exactly
\* max(0, count - max_conversations) turns, and with max_conversations >= 1
\* it never evicts the conversation just saved, which is stored when the
\* method returns.
C39_LockReleasedLoopEnds ==
    /\ [](\A t \in Threads :
            /\ threads[t].locked <=> lock = t
            /\ threads[t].locked => threads[t].pc \in LockedBodies \cup {"save", "evict"}
            /\ Waits(t) => lock # t)
    /\ \A t \in Threads : (lock = t) ~> (lock = Unlocked)
    /\ \A t \in Threads : Waits(t) ~> (lock = Unlocked \/ lock = t)
    /\ [][\A t \in Threads :
            (threads[t].pc = "evict" /\ threads'[t].pc = "idle") =>
                /\ ret'.op = "save_conversation"
                /\ ret'.evictions = ret'.over
                /\ max_conversations >= 1 => Contains(conversations', threads[t].id)]_vars
    /\ [][\A t \in Threads :
            (threads[t].pc = "evict" /\ conversations' # conversations
               /\ max_conversations >= 1)
            => /\ conversations' = Tail(conversations)
               /\ Head(conversations).id # threads[t].id]_vars

\* C39 witness: a save has returned after one eviction with the lock free,
\* the store full, and the other thread waiting to enter
C39_Witness ==
    /\ ret.op = "save_conversation"
    /\ ret.evictions = 1
    /\ max_conversations >= 1
    /\ Len(conversations) = max_conversations
    /\ lock = Unlocked
    /\ \E t \in Threads : Waits(t) /\ threads[t].pc = "save"

====
